---- MODULE Spec2Model ----
(***************************************************************************)
(* A model of sinqtt, the MQTT to InfluxDB bridge: the dispatch loop of    *)
(* src/main.rs (main, run_bridge, process_message, process_point), the     *)
(* broker task of src/bridge/mqtt.rs and the message processor of          *)
(* src/bridge/processor.rs.                                                *)
(*                                                                         *)
(* Strings are sequences of one-character strings, so that splitting,      *)
(* prefix tests and substring tests are computed as the code computes      *)
(* them.  JSON values are tagged records; an absent Option is None.        *)
(***************************************************************************)
EXTENDS Integers, Sequences, FiniteSets, TLC

(***************************************************************************)
(* Strings                                                                 *)
(***************************************************************************)

Digits == {"0", "1", "2", "3", "4", "5", "6", "7", "8", "9"}

Letters ==
  {"a", "b", "c", "d", "e", "f", "g", "h", "i", "j", "k", "l", "m",
   "n", "o", "p", "q", "r", "s", "t", "u", "v", "w", "x", "y", "z",
   "A", "B", "C", "D", "E", "F", "G", "H", "I", "J", "K", "L", "M",
   "N", "O", "P", "Q", "R", "S", "T", "U", "V", "W", "X", "Y", "Z"}

\* The regex class \w.
WordChars == Letters \cup Digits \cup {"_"}

DigitVal(c) ==
  CASE c = "0" -> 0 [] c = "1" -> 1 [] c = "2" -> 2 [] c = "3" -> 3
    [] c = "4" -> 4 [] c = "5" -> 5 [] c = "6" -> 6 [] c = "7" -> 7
    [] c = "8" -> 8 [] c = "9" -> 9

\* s[i..j], empty when j < i.
Slice(s, i, j) == IF j < i THEN <<>> ELSE SubSeq(s, i, j)

\* str::starts_with
StartsWith(s, p) == Len(p) <= Len(s) /\ SubSeq(s, 1, Len(p)) = p

\* str::contains
Contains(s, p) ==
  \E i \in 1..(Len(s) - Len(p) + 1) : SubSeq(s, i, i + Len(p) - 1) = p

RECURSIVE SplitFrom(_, _, _, _)
SplitFrom(s, sep, i, cur) ==
  IF i > Len(s) THEN <<cur>>
  ELSE IF s[i] = sep THEN <<cur>> \o SplitFrom(s, sep, i + 1, <<>>)
  ELSE SplitFrom(s, sep, i + 1, Append(cur, s[i]))

\* str::split(sep): always at least one piece, empty pieces kept.
Split(s, sep) == SplitFrom(s, sep, 1, <<>>)

RECURSIVE TrimStartMatches(_, _)
TrimStartMatches(s, c) ==
  IF Len(s) > 0 /\ s[1] = c THEN TrimStartMatches(Tail(s), c) ELSE s

RECURSIVE TrimEndMatches(_, _)
TrimEndMatches(s, c) ==
  IF Len(s) > 0 /\ s[Len(s)] = c
  THEN TrimEndMatches(SubSeq(s, 1, Len(s) - 1), c) ELSE s

\* str::trim (the only whitespace of the model is the space).
Trim(s) == TrimEndMatches(TrimStartMatches(s, " "), " ")

\* The decimal value of a non-empty run of digits.
RECURSIVE DecimalValue(_)
DecimalValue(s) ==
  IF Len(s) = 0 THEN 0
  ELSE 10 * DecimalValue(SubSeq(s, 1, Len(s) - 1)) + DigitVal(s[Len(s)])

AllDigits(s) == Len(s) > 0 /\ \A i \in 1..Len(s) : s[i] \in Digits

\* The decimal text of a natural number.
RECURSIVE DecimalText(_)
DecimalText(n) ==
  LET d == CHOOSE c \in Digits : DigitVal(c) = n % 10
  IN  IF n < 10 THEN <<d>> ELSE Append(DecimalText(n \div 10), d)

(***************************************************************************)
(* JSON values (serde_json::Value) and Option                              *)
(***************************************************************************)

None == [type |-> "none"]

\* Some(v) of an Option whose content is not a JSON value.
Some(v) == [type |-> "some", v |-> v]

\* A Result or Option whose content is a sequence.
Failure == [ok |-> FALSE]

Ok(v) == [ok |-> TRUE, v |-> v]

JNull == [type |-> "null"]

JBool(b) == [type |-> "bool", b |-> b]

JInt(n) == [type |-> "int", n |-> n]

JFloat(f) == [type |-> "float", f |-> f]

JString(s) == [type |-> "string", s |-> s]

JArray(a) == [type |-> "array", a |-> a]

\* o is a function from keys (strings) to values.
JObject(o) == [type |-> "object", o |-> o]

IsNumber(v) == v.type \in {"int", "float"}

\* Value::as_f64 of a number (floats of the model are integer valued).
NumberOf(v) == IF v.type = "int" THEN v.n ELSE v.f

(***************************************************************************)
(* serde_json::from_str, for the JSON texts of the model: null, true,      *)
(* false, integers, strings without escapes, and objects of at most one    *)
(* member, without inner whitespace.  Any other text is a parse error.     *)
(***************************************************************************)

Max(S) == CHOOSE m \in S : \A n \in S : n <= m

Min(S) == CHOOSE m \in S : \A n \in S : m <= n

\* The end of the longest run of characters of C that starts at i
\* (i - 1 when s[i] is not in C).
RunEnd(s, i, C) ==
  Max({j \in (i - 1)..Len(s) : \A k \in i..j : s[k] \in C})

\* The position of the first c at or after i, 0 when there is none.
IndexFrom(s, c, i) ==
  LET hits == {k \in i..Len(s) : s[k] = c}
  IN  IF hits = {} THEN 0 ELSE Min(hits)

S_null == <<"n", "u", "l", "l">>

S_true == <<"t", "r", "u", "e">>

S_false == <<"f", "a", "l", "s", "e">>

RECURSIVE json_from_str(_)
json_from_str(text) ==
  LET s == Trim(text)
      n == Len(s)
  IN  IF s = S_null THEN JNull
      ELSE IF s = S_true THEN JBool(TRUE)
      ELSE IF s = S_false THEN JBool(FALSE)
      ELSE IF AllDigits(s) THEN
        IF n > 1 /\ s[1] = "0" THEN None ELSE JInt(DecimalValue(s))
      ELSE IF n > 1 /\ s[1] = "-" /\ AllDigits(Tail(s)) THEN
        IF n > 2 /\ s[2] = "0" THEN None ELSE JInt(0 - DecimalValue(Tail(s)))
      ELSE IF n >= 2 /\ s[1] = "\"" /\ s[n] = "\"" THEN
        LET inner == Slice(s, 2, n - 1)
        IN  IF \E i \in 1..Len(inner) : inner[i] \in {"\"", "\\"}
            THEN None ELSE JString(inner)
      ELSE IF s = <<"{", "}">> THEN JObject(<<>>)
      ELSE IF n >= 6 /\ s[1] = "{" /\ s[n] = "}" /\ s[2] = "\"" THEN
        LET q == IndexFrom(s, "\"", 3)
        IN  IF q = 0 \/ q + 1 >= n \/ s[q + 1] # ":" THEN None
            ELSE LET v == json_from_str(Slice(s, q + 2, n - 1))
                 IN  IF v = None THEN None
                     ELSE JObject([k \in {Slice(s, 3, q - 1)} |-> v])
      ELSE None

(***************************************************************************)
(* base64 (STANDARD alphabet, padded) and hex::encode                      *)
(***************************************************************************)

Base64Alphabet ==
  <<"A", "B", "C", "D", "E", "F", "G", "H", "I", "J", "K", "L", "M",
    "N", "O", "P", "Q", "R", "S", "T", "U", "V", "W", "X", "Y", "Z",
    "a", "b", "c", "d", "e", "f", "g", "h", "i", "j", "k", "l", "m",
    "n", "o", "p", "q", "r", "s", "t", "u", "v", "w", "x", "y", "z",
    "0", "1", "2", "3", "4", "5", "6", "7", "8", "9", "+", "/">>

Base64Index(c) == CHOOSE i \in 1..64 : Base64Alphabet[i] = c

IsBase64Char(c) == \E i \in 1..64 : Base64Alphabet[i] = c

\* The bytes of one group of four characters, Failure when it is not valid.
\* last: the group is the final one, the only place padding may stand.
Base64Group(g, last) ==
  LET v(i) == Base64Index(g[i]) - 1
  IN  IF IsBase64Char(g[1]) /\ IsBase64Char(g[2]) /\ IsBase64Char(g[3])
         /\ IsBase64Char(g[4])
      THEN LET w == ((v(1) * 64 + v(2)) * 64 + v(3)) * 64 + v(4)
           IN  Ok(<<w \div 65536, (w \div 256) % 256, w % 256>>)
      ELSE IF last /\ IsBase64Char(g[1]) /\ IsBase64Char(g[2])
              /\ IsBase64Char(g[3]) /\ g[4] = "="
      THEN LET w == (v(1) * 64 + v(2)) * 64 + v(3)
           IN  IF w % 4 # 0 THEN Failure
               ELSE Ok(<<w \div 1024, (w \div 4) % 256>>)
      ELSE IF last /\ IsBase64Char(g[1]) /\ IsBase64Char(g[2])
              /\ g[3] = "=" /\ g[4] = "="
      THEN LET w == v(1) * 64 + v(2)
           IN  IF w % 16 # 0 THEN Failure ELSE Ok(<<w \div 16>>)
      ELSE Failure

RECURSIVE base64_decode(_)
base64_decode(s) ==
  IF Len(s) = 0 THEN Ok(<<>>)
  ELSE IF Len(s) < 4 THEN Failure
  ELSE LET g == Base64Group(SubSeq(s, 1, 4), Len(s) = 4)
           rest == IF g.ok THEN base64_decode(Slice(s, 5, Len(s)))
                   ELSE Failure
       IN  IF g.ok /\ rest.ok THEN Ok(g.v \o rest.v) ELSE Failure

HexDigits ==
  <<"0", "1", "2", "3", "4", "5", "6", "7", "8", "9",
    "a", "b", "c", "d", "e", "f">>

RECURSIVE hex_encode(_)
hex_encode(bytes) ==
  IF Len(bytes) = 0 THEN <<>>
  ELSE <<HexDigits[(bytes[1] \div 16) + 1], HexDigits[(bytes[1] % 16) + 1]>>
       \o hex_encode(Tail(bytes))

(***************************************************************************)
(* The message processor (src/bridge/processor.rs)                         *)
(***************************************************************************)

K_topic == <<"t", "o", "p", "i", "c">>

K_payload == <<"p", "a", "y", "l", "o", "a", "d">>

K_timestamp == <<"t", "i", "m", "e", "s", "t", "a", "m", "p">>

K_qos == <<"q", "o", "s">>

K_base64decoded ==
  <<"b", "a", "s", "e", "6", "4", "d", "e", "c", "o", "d", "e", "d">>

K_raw == <<"r", "a", "w">>

K_hex == <<"h", "e", "x">>

\* json!(msg.timestamp) and the like: an unset Option is JSON null.
OptionToJson(o) == IF o = None THEN JNull ELSE JInt(o.v)

\* MessageProcessor::build_message_object
build_message_object(msg) ==
  LET base == {K_topic, K_payload, K_timestamp, K_qos}
      keys == IF msg.base64decoded = None THEN base
              ELSE base \cup {K_base64decoded}
      decoded_obj ==
        JObject([t \in DOMAIN msg.base64decoded.v |->
          JObject([f \in {K_raw, K_hex} |->
            IF f = K_raw
            THEN JArray([i \in 1..Len(msg.base64decoded.v[t].raw) |->
                           JInt(msg.base64decoded.v[t].raw[i])])
            ELSE JString(msg.base64decoded.v[t].hex)])])
  IN  JObject([k \in keys |->
        CASE k = K_topic ->
               JArray([i \in 1..Len(msg.topic) |-> JString(msg.topic[i])])
          [] k = K_payload -> msg.payload
          [] k = K_timestamp -> OptionToJson(msg.timestamp)
          [] k = K_qos -> JInt(msg.qos)
          [] k = K_base64decoded -> decoded_obj])

(***************************************************************************)
(* JSONPath (jsonpath_rust's query), for the paths of the model: `$`       *)
(* followed by `.name`, `[n]` and `['name']` selectors.  Any other text is *)
(* a path that fails to parse.                                             *)
(***************************************************************************)

KeySel(k) == [sel |-> "key", key |-> k]

IndexSel(i) == [sel |-> "index", index |-> i]

\* The selectors of s from position i on, or Failure.
RECURSIVE ParseSelectors(_, _)
ParseSelectors(s, i) ==
  IF i > Len(s) THEN Ok(<<>>)
  ELSE IF s[i] = "." THEN
    LET j == RunEnd(s, i + 1, WordChars)
        rest == IF j < i + 1 THEN Failure ELSE ParseSelectors(s, j + 1)
    IN  IF rest.ok THEN Ok(<<KeySel(Slice(s, i + 1, j))>> \o rest.v)
        ELSE Failure
  ELSE IF s[i] = "[" /\ i < Len(s) /\ s[i + 1] = "'" THEN
    LET q == IndexFrom(s, "'", i + 2)
        good == q > i + 2 /\ q < Len(s) /\ s[q + 1] = "]"
        rest == IF good THEN ParseSelectors(s, q + 2) ELSE Failure
    IN  IF rest.ok THEN Ok(<<KeySel(Slice(s, i + 2, q - 1))>> \o rest.v)
        ELSE Failure
  ELSE IF s[i] = "[" THEN
    LET j == RunEnd(s, i + 1, Digits)
        good == j >= i + 1 /\ j < Len(s) /\ s[j + 1] = "]"
        rest == IF good THEN ParseSelectors(s, j + 2) ELSE Failure
    IN  IF rest.ok
        THEN Ok(<<IndexSel(DecimalValue(Slice(s, i + 1, j)))>> \o rest.v)
        ELSE Failure
  ELSE Failure

\* The value the selectors lead to, or None.
RECURSIVE Select(_, _)
Select(value, sels) ==
  IF Len(sels) = 0 THEN value
  ELSE IF sels[1].sel = "key" THEN
    IF value.type = "object" /\ sels[1].key \in DOMAIN value.o
    THEN Select(value.o[sels[1].key], Tail(sels)) ELSE None
  ELSE
    IF value.type = "array" /\ sels[1].index + 1 \in DOMAIN value.a
    THEN Select(value.a[sels[1].index + 1], Tail(sels)) ELSE None

\* MessageProcessor::extract_jsonpath: the first match, or None.
extract_jsonpath(path, value) ==
  IF Len(path) = 0 \/ path[1] # "$" THEN None
  ELSE LET sels == ParseSelectors(path, 2)
       IN  IF sels.ok THEN Select(value, sels.v) ELSE None

(***************************************************************************)
(* The expression sub-language (src/expr/parser.rs, src/expr/evaluator.rs) *)
(***************************************************************************)

RECURSIVE ReplaceChar(_, _, _)
\* str::replace(c, to) for a character c.
ReplaceChar(s, c, to) ==
  IF Len(s) = 0 THEN <<>>
  ELSE (IF s[1] = c THEN to ELSE <<s[1]>>) \o ReplaceChar(Tail(s), c, to)

RECURSIVE Replace(_, _, _)
\* str::replace(from, to) for a non-empty from: every non-overlapping
\* occurrence, from the left.
Replace(s, from, to) ==
  IF Len(s) < Len(from) THEN s
  ELSE IF StartsWith(s, from)
  THEN to \o Replace(Slice(s, Len(from) + 1, Len(s)), from, to)
  ELSE <<s[1]>> \o Replace(Tail(s), from, to)

S_JSON_ == <<"J", "S", "O", "N", "_">>

\* jsonpath_to_variable
jsonpath_to_variable(path) ==
  ReplaceChar(ReplaceChar(path, "$", S_JSON_), ".", <<"_">>)

\* variable_to_jsonpath
variable_to_jsonpath(var) ==
  ReplaceChar(Replace(var, S_JSON_, <<"$">>), "_", <<".">>)

\* The character class [\w.\[\]'] of JSONPATH_REGEX.
PathChars == WordChars \cup {".", "[", "]", "'"}

RECURSIVE FindJsonPaths(_, _)
\* JSONPATH_REGEX.find_iter(text) from position i: the matches, in order.
FindJsonPaths(s, i) ==
  LET starts == {p \in i..(Len(s) - 2) :
                   s[p] = "$" /\ s[p + 1] = "." /\ s[p + 2] \in PathChars}
  IN  IF starts = {} THEN <<>>
      ELSE LET p == Min(starts)
               e == RunEnd(s, p + 2, PathChars)
           IN  <<Slice(s, p, e)>> \o FindJsonPaths(s, e + 1)

RECURSIVE InsertByLenDesc(_, _)
\* x put into a sequence sorted by length descending, after its equals.
InsertByLenDesc(sorted, x) ==
  IF Len(sorted) = 0 THEN <<x>>
  ELSE IF Len(sorted[1]) >= Len(x)
  THEN <<sorted[1]>> \o InsertByLenDesc(Tail(sorted), x)
  ELSE <<x>> \o sorted

\* The paths left in the order they were found.
SortByLenSkipped(xs) == xs

RECURSIVE SortByLenDesc(_)
\* sort_by_key(|s| Reverse(s.len())): stable.
SortByLenDesc(xs) ==
  IF Len(xs) = 0 THEN <<>>
  ELSE InsertByLenDesc(SortByLenDesc(SubSeq(xs, 1, Len(xs) - 1)), xs[Len(xs)])

\* The first position at or after i that holds no space.
SkipSpaces(s, i) == RunEnd(s, i, {" "}) + 1

\* The position of the `^` that follows position e after optional spaces,
\* 0 when there is none.
CaretAfter(s, e) ==
  LET k == SkipSpaces(s, e + 1)
  IN  IF k <= Len(s) /\ s[k] = "^" THEN k ELSE 0

\* The end of `\d+\.?\d*` at p (s[p] is a digit).
NumberEnd(s, p) ==
  LET e1 == RunEnd(s, p, Digits)
      e2 == IF e1 < Len(s) /\ s[e1 + 1] = "." THEN e1 + 1 ELSE e1
  IN  RunEnd(s, e2 + 1, Digits)

\* The end of `\([^)]+\)` at p (s[p] is an opening parenthesis), 0 when it
\* does not match.
ParenEnd(s, p) ==
  LET q == IndexFrom(s, ")", p + 1)
  IN  IF q > p + 1 THEN q ELSE 0

\* The end of the base operand of POWER_REGEX at p, 0 when none of its
\* alternatives is followed by `\s*\^`.
BaseEnd(s, p) ==
  IF s[p] \in WordChars /\ CaretAfter(s, RunEnd(s, p, WordChars)) # 0
  THEN RunEnd(s, p, WordChars)
  ELSE IF s[p] \in Digits /\ CaretAfter(s, NumberEnd(s, p)) # 0
  THEN NumberEnd(s, p)
  ELSE IF s[p] = "(" /\ ParenEnd(s, p) # 0 /\ CaretAfter(s, ParenEnd(s, p)) # 0
  THEN ParenEnd(s, p)
  ELSE 0

\* The end of the exponent operand of POWER_REGEX at k, 0 when none.
ExponentEnd(s, k) ==
  IF k > Len(s) THEN 0
  ELSE IF s[k] \in WordChars THEN RunEnd(s, k, WordChars)
  ELSE IF s[k] = "(" THEN ParenEnd(s, k)
  ELSE 0

\* Whether POWER_REGEX matches at p.
PowerMatchAt(s, p) ==
  /\ BaseEnd(s, p) # 0
  /\ ExponentEnd(s, SkipSpaces(s, CaretAfter(s, BaseEnd(s, p)) + 1)) # 0

S_pow == <<"m", "a", "t", "h", ":", ":", "p", "o", "w", "(">>

RECURSIVE convert_power_operator(_)
\* convert_power_operator: the leftmost match is rewritten until none is
\* left.
convert_power_operator(expr) ==
  LET Rewritten(p, b, k, e) ==
        Slice(expr, 1, p - 1) \o S_pow \o Slice(expr, p, b)
        \o <<",", " ">> \o Slice(expr, k, e) \o <<")">>
        \o Slice(expr, e + 1, Len(expr))
      FromExponent(p, b, k) ==
        convert_power_operator(Rewritten(p, b, k, ExponentEnd(expr, k)))
      FromBase(p, b) ==
        FromExponent(p, b, SkipSpaces(expr, CaretAfter(expr, b) + 1))
      Leftmost(starts) ==
        IF starts = {} THEN expr
        ELSE FromBase(Min(starts), BaseEnd(expr, Min(starts)))
  IN  Leftmost({p \in 1..Len(expr) : PowerMatchAt(expr, p)})

RECURSIVE ReplaceAll(_, _, _)
\* The replacement loop of parse_expression over jsonpaths[i..].
ReplaceAll(result, jsonpaths, i) ==
  IF i > Len(jsonpaths) THEN result
  ELSE ReplaceAll(
         Replace(result, jsonpaths[i], jsonpath_to_variable(jsonpaths[i])),
         jsonpaths, i + 1)

\* parse_expression: (the rewritten expression, the JSONPaths found).
parse_expression(text) ==
  LET Rewrite(jsonpaths) ==
        [result |-> convert_power_operator(ReplaceAll(text, jsonpaths, 1)),
         jsonpaths |-> jsonpaths]
  IN  Rewrite(SortByLenDesc(FindJsonPaths(text, 1)))

(***************************************************************************)
(* evalexpr's eval_with_context, for the expressions of the model:         *)
(* integer literals, identifiers, unary minus, `+ - *`, parentheses and    *)
(* the call math::pow(a, b) with a natural exponent.  Anything else is an  *)
(* evaluation error.  An evaluation is [ok, v, pos]: pos is the position   *)
(* after the text consumed.                                                *)
(***************************************************************************)

EvalError == [ok |-> FALSE, v |-> 0, pos |-> 0]

EvalAt(v, pos) == [ok |-> TRUE, v |-> v, pos |-> pos]

IdentChars == WordChars \cup {":"}

S_math_pow == <<"m", "a", "t", "h", ":", ":", "p", "o", "w">>

RECURSIVE Power(_, _)
Power(a, b) == IF b = 0 THEN 1 ELSE a * Power(a, b - 1)

\* The character at i, or the empty string past the end.
CharAt(s, i) == IF i >= 1 /\ i <= Len(s) THEN s[i] ELSE ""

RECURSIVE EvalSum(_, _, _)
RECURSIVE EvalSumRest(_, _, _, _)
RECURSIVE EvalProduct(_, _, _)
RECURSIVE EvalProductRest(_, _, _, _)
RECURSIVE EvalAtom(_, _, _)

EvalSum(s, i, vars) ==
  LET Then(l) == IF l.ok THEN EvalSumRest(s, l.v, l.pos, vars) ELSE EvalError
  IN  Then(EvalProduct(s, i, vars))

EvalSumRest(s, acc, i, vars) ==
  LET k == SkipSpaces(s, i)
      c == CharAt(s, k)
      Then(r) ==
        IF r.ok
        THEN EvalSumRest(s, IF c = "+" THEN acc + r.v ELSE acc - r.v,
                         r.pos, vars)
        ELSE EvalError
  IN  IF c \in {"+", "-"} THEN Then(EvalProduct(s, k + 1, vars))
      ELSE EvalAt(acc, i)

EvalProduct(s, i, vars) ==
  LET Then(l) ==
        IF l.ok THEN EvalProductRest(s, l.v, l.pos, vars) ELSE EvalError
  IN  Then(EvalAtom(s, i, vars))

EvalProductRest(s, acc, i, vars) ==
  LET k == SkipSpaces(s, i)
      Then(r) ==
        IF r.ok THEN EvalProductRest(s, acc * r.v, r.pos, vars)
        ELSE EvalError
  IN  IF CharAt(s, k) = "*" THEN Then(EvalAtom(s, k + 1, vars))
      ELSE EvalAt(acc, i)

EvalAtom(s, i, vars) ==
  LET k == SkipSpaces(s, i)
      c == CharAt(s, k)
      \* ( expression )
      Closing(r) ==
        LET q == IF r.ok THEN SkipSpaces(s, r.pos) ELSE 0
        IN  IF r.ok /\ CharAt(s, q) = ")" THEN EvalAt(r.v, q + 1)
            ELSE EvalError
      Negated(r) == IF r.ok THEN EvalAt(0 - r.v, r.pos) ELSE EvalError
      \* the second argument and the `)` of a call
      CallEnd(a, b) ==
        LET cb == IF b.ok THEN SkipSpaces(s, b.pos) ELSE 0
        IN  IF b.ok /\ CharAt(s, cb) = ")" /\ b.v >= 0
            THEN EvalAt(Power(a.v, b.v), cb + 1)
            ELSE EvalError
      \* the `,` after the first argument of a call
      CallRest(a) ==
        LET ca == IF a.ok THEN SkipSpaces(s, a.pos) ELSE 0
        IN  CallEnd(a, IF a.ok /\ CharAt(s, ca) = ","
                       THEN EvalSum(s, ca + 1, vars) ELSE EvalError)
      Word(e) ==
        LET word == Slice(s, k, e)
            q == SkipSpaces(s, e + 1)
        IN  IF CharAt(s, q) = "(" THEN
              \* a function call: only math::pow is known
              CallRest(IF word = S_math_pow THEN EvalSum(s, q + 1, vars)
                       ELSE EvalError)
            ELSE IF AllDigits(word) THEN
              IF CharAt(s, e + 1) = "." THEN EvalError
              ELSE EvalAt(DecimalValue(word), e + 1)
            ELSE IF word \in DOMAIN vars THEN EvalAt(vars[word], e + 1)
            ELSE EvalError
  IN  IF c = "(" THEN Closing(EvalSum(s, k + 1, vars))
      ELSE IF c = "-" THEN Negated(EvalAtom(s, k + 1, vars))
      ELSE IF c \in IdentChars THEN Word(RunEnd(s, k, IdentChars))
      ELSE EvalError

\* eval_with_context(expr, context): Ok(value) or Failure.
eval_with_context(expr, vars) ==
  LET Whole(r) ==
        IF r.ok /\ SkipSpaces(expr, r.pos) > Len(expr) THEN Ok(r.v)
        ELSE Failure
  IN  Whole(EvalSum(expr, 1, vars))

\* evaluate_expression (src/expr/evaluator.rs): Ok(f64) or Failure.
evaluate_expression(expression, variables) ==
  LET expr == Trim(TrimStartMatches(expression, "="))
  IN  IF Len(expr) = 0 THEN Failure
      ELSE eval_with_context(parse_expression(expr).result, variables)

\* HashMap::insert
MapInsert(m, k, v) ==
  [x \in (DOMAIN m) \cup {k} |-> IF x = k THEN v ELSE m[x]]

\* HashMap::new()
EmptyMap == [x \in {} |-> 0]

(***************************************************************************)
(* MessageProcessor (src/bridge/processor.rs)                              *)
(***************************************************************************)

\* A parsed message (struct ParsedMessage).
ParsedMessage(topic, payload, timestamp, qos, base64decoded) ==
  [topic |-> topic, payload |-> payload, timestamp |-> timestamp,
   qos |-> qos, base64decoded |-> base64decoded]

\* A decode_base64 that yields no bytes where it should yield None.
decode_base64_or_empty(msg, config) ==
  LET Decoded(raw) ==
        IF raw.ok THEN Some([raw |-> raw.v, hex |-> hex_encode(raw.v)])
        ELSE Some([raw |-> <<>>, hex |-> <<>>])
      Source(value) ==
        IF value = None \/ value.type # "string" THEN None
        ELSE Decoded(base64_decode(value.s))
  IN  Source(extract_jsonpath(config.source, build_message_object(msg)))

\* MessageProcessor::decode_base64: Some([raw, hex]) or None.
decode_base64(msg, config) ==
  LET Decoded(raw) ==
        IF raw.ok THEN Some([raw |-> raw.v, hex |-> hex_encode(raw.v)])
        ELSE None
      Source(value) ==
        IF value = None \/ value.type # "string" THEN None
        ELSE Decoded(base64_decode(value.s))
  IN  Source(extract_jsonpath(config.source, build_message_object(msg)))

\* A byte that is no UTF-8, and the character U+FFFD that stands for it.
InvalidByte == "0xFF"

ReplacementChar == "U+FFFD"

\* String::from_utf8_lossy.  The bytes of the model are ASCII characters,
\* which stay, and InvalidByte.
from_utf8_lossy(bytes) ==
  [i \in 1..Len(bytes) |->
     IF bytes[i] = InvalidByte THEN ReplacementChar ELSE bytes[i]]

\* A parse_message that rejects a payload that is no UTF-8.
parse_message_utf8_only(base64_config, topic, payload, qos) ==
  IF \E i \in 1..Len(payload) : payload[i] = InvalidByte THEN Failure
  ELSE Ok(ParsedMessage(Split(topic, "/"), JNull, None, qos, None))

\* A parse_message for which a payload that is no JSON is null.
parse_message_null_on_error(base64_config, topic, payload, qos) ==
  LET PayloadValue(parsed) == IF parsed = None THEN JNull ELSE parsed
  IN  Ok(ParsedMessage(Split(topic, "/"),
                       PayloadValue(json_from_str(from_utf8_lossy(payload))),
                       None, qos, None))

\* MessageProcessor::parse_message.  base64_config is self.base64_config,
\* None or Some([source, target]).  Its result is a Result: Ok(message).
parse_message(base64_config, topic, payload, qos) ==
  LET PayloadValue(payload_str, parsed) ==
        IF Len(payload_str) = 0 THEN JNull
        ELSE IF parsed = None THEN JString(payload_str)
        ELSE parsed
      PayloadOf(payload_str) ==
        PayloadValue(payload_str, json_from_str(payload_str))
      WithDecoded(msg, decoded) ==
        IF decoded = None THEN msg
        ELSE [msg EXCEPT !.base64decoded =
                Some([t \in {base64_config.v.target} |-> decoded.v])]
      Decode(msg) ==
        WithDecoded(msg, IF base64_config = None THEN None
                         ELSE decode_base64(msg, base64_config.v))
  IN  Ok(Decode(ParsedMessage(Split(topic, "/"),
                              PayloadOf(from_utf8_lossy(payload)),
                              None, qos, None)))

RECURSIVE BindVariables(_, _, _, _)
\* The binding loop of evaluate_expression_spec over jsonpaths[i..].
BindVariables(jsonpaths, msg_value, i, variables) ==
  LET Bound(value) ==
        IF value # None /\ IsNumber(value)
        THEN MapInsert(variables, jsonpath_to_variable(jsonpaths[i]),
                       NumberOf(value))
        ELSE variables
  IN  IF i > Len(jsonpaths) THEN variables
      ELSE BindVariables(jsonpaths, msg_value, i + 1,
                         Bound(extract_jsonpath(jsonpaths[i], msg_value)))

\* MessageProcessor::evaluate_expression_spec
evaluate_expression_spec(spec, msg_value) ==
  LET expr == Trim(TrimStartMatches(spec, "="))
      Result(r) == IF r.ok THEN JFloat(r.v) ELSE None
  IN  Result(evaluate_expression(
               spec,
               BindVariables(parse_expression(expr).jsonpaths, msg_value, 1,
                             EmptyMap)))

\* A get_value that looks for `$.` before it looks for `=`.
get_value_path_first(spec, msg) ==
  IF Len(spec) = 0 THEN None
  ELSE IF Contains(spec, <<"$", ".">>) THEN
    extract_jsonpath(spec, build_message_object(msg))
  ELSE IF spec[1] = "=" THEN
    evaluate_expression_spec(spec, build_message_object(msg))
  ELSE JString(spec)

\* MessageProcessor::get_value
get_value(spec, msg) ==
  IF Len(spec) = 0 THEN None
  ELSE IF spec[1] = "=" THEN
    evaluate_expression_spec(spec, build_message_object(msg))
  ELSE IF Contains(spec, <<"$", ".">>) THEN
    extract_jsonpath(spec, build_message_object(msg))
  ELSE JString(spec)

UpperCase ==
  <<"A", "B", "C", "D", "E", "F", "G", "H", "I", "J", "K", "L", "M",
    "N", "O", "P", "Q", "R", "S", "T", "U", "V", "W", "X", "Y", "Z">>

LowerCase ==
  <<"a", "b", "c", "d", "e", "f", "g", "h", "i", "j", "k", "l", "m",
    "n", "o", "p", "q", "r", "s", "t", "u", "v", "w", "x", "y", "z">>

\* str::to_lowercase
to_lowercase(s) ==
  [i \in 1..Len(s) |->
     IF \E j \in 1..Len(UpperCase) : UpperCase[j] = s[i]
     THEN LowerCase[CHOOSE j \in 1..Len(UpperCase) : UpperCase[j] = s[i]]
     ELSE s[i]]

\* i64::to_string
i64_to_string(n) ==
  IF n < 0 THEN <<"-">> \o DecimalText(0 - n) ELSE DecimalText(n)

\* Value::to_string, the canonical JSON text (objects of at most one
\* member, as json_from_str reads them).
RECURSIVE json_to_string(_)
json_to_string(v) ==
  LET IntText(n) == IF n < 0 THEN <<"-">> \o DecimalText(0 - n)
                    ELSE DecimalText(n)
      RECURSIVE Items(_, _)
      Items(a, i) ==
        IF i > Len(a) THEN <<>>
        ELSE (IF i > 1 THEN <<",">> ELSE <<>>) \o json_to_string(a[i])
             \o Items(a, i + 1)
  IN  CASE v.type = "null" -> S_null
        [] v.type = "bool" -> IF v.b THEN S_true ELSE S_false
        [] v.type = "int" -> IntText(v.n)
        [] v.type = "float" -> IntText(v.f) \o <<".", "0">>
        [] v.type = "string" -> <<"\"">> \o v.s \o <<"\"">>
        [] v.type = "array" -> <<"[">> \o Items(v.a, 1) \o <<"]">>
        [] v.type = "object" ->
             IF DOMAIN v.o = {} THEN <<"{", "}">>
             ELSE LET k == CHOOSE k \in DOMAIN v.o : TRUE
                  IN  <<"{", "\"">> \o k \o <<"\"", ":">>
                      \o json_to_string(v.o[k]) \o <<"}">>

\* str::parse::<i64>: an optional sign and digits.
ParseInt(s) ==
  IF AllDigits(s) THEN JInt(DecimalValue(s))
  ELSE IF Len(s) > 1 /\ s[1] = "-" /\ AllDigits(Tail(s))
  THEN JInt(0 - DecimalValue(Tail(s)))
  ELSE IF Len(s) > 1 /\ s[1] = "+" /\ AllDigits(Tail(s))
  THEN JInt(DecimalValue(Tail(s)))
  ELSE None

T_float == <<"f", "l", "o", "a", "t">>

T_int == <<"i", "n", "t">>

T_str == <<"s", "t", "r">>

T_string == <<"s", "t", "r", "i", "n", "g">>

T_bool == <<"b", "o", "o", "l">>

T_booltoint == <<"b", "o", "o", "l", "t", "o", "i", "n", "t">>

TrueWords == {S_true, <<"1">>, <<"y", "e", "s">>, <<"o", "n">>}

FalseWords == {S_false, <<"0">>, <<"n", "o">>, <<"o", "f", "f">>}

\* MessageProcessor::convert_type (the numeric strings of the model are
\* integer texts).
convert_type(value, type_name) ==
  IF type_name = T_float THEN
    IF IsNumber(value) THEN JFloat(NumberOf(value))
    ELSE IF value.type = "string" THEN
      LET i == ParseInt(value.s) IN IF i = None THEN None ELSE JFloat(i.n)
    ELSE None
  ELSE IF type_name = T_int THEN
    IF value.type = "int" THEN JInt(value.n)
    ELSE IF value.type = "float" THEN JInt(value.f)
    ELSE IF value.type = "string" THEN ParseInt(value.s)
    ELSE None
  ELSE IF type_name \in {T_str, T_string} THEN
    JString(IF value.type = "string" THEN value.s ELSE json_to_string(value))
  ELSE IF type_name = T_bool THEN
    IF value.type = "bool" THEN JBool(value.b)
    ELSE IF value.type = "string" THEN
      IF to_lowercase(value.s) \in TrueWords THEN JBool(TRUE)
      ELSE IF to_lowercase(value.s) \in FalseWords THEN JBool(FALSE)
      ELSE None
    ELSE IF value.type = "int" THEN JBool(value.n # 0)
    ELSE None
  ELSE IF type_name = T_booltoint THEN
    LET bool_val ==
          IF value.type = "bool" THEN JBool(value.b)
          ELSE IF value.type = "string" THEN
            IF to_lowercase(value.s) \in TrueWords THEN JBool(TRUE)
            ELSE IF to_lowercase(value.s) \in FalseWords THEN JBool(FALSE)
            ELSE None
          ELSE None
    IN  IF bool_val = None THEN None
        ELSE JInt(IF bool_val.b THEN 1 ELSE 0)
  ELSE None

\* FieldSpec::Simple and FieldSpec::Typed (src/config/types.rs).
SimpleField(s) == [kind |-> "simple", value |-> s]

TypedField(s, t) == [kind |-> "typed", value |-> s, field_type |-> t]

\* MessageProcessor::extract_field
extract_field(spec, msg) ==
  LET Typed(value) ==
        IF spec.kind = "simple" THEN value
        ELSE IF value = None THEN None
        ELSE IF spec.field_type = None THEN value
        ELSE convert_type(value, spec.field_type.v)
  IN  Typed(get_value(spec.value, msg))

RECURSIVE topic_loop(_, _, _)
\* The while loop of topic_matches; p_idx and t_idx advance together, i is
\* their common value.  Its result is [done, result, i]: done when the loop
\* returned.
topic_loop(pattern_parts, topic_parts, i) ==
  IF i < Len(pattern_parts) /\ i < Len(topic_parts) THEN
    IF pattern_parts[i + 1] = <<"#">> THEN [done |-> TRUE, result |-> TRUE, i |-> i]
    ELSE IF pattern_parts[i + 1] = <<"+">>
    THEN topic_loop(pattern_parts, topic_parts, i + 1)
    ELSE IF pattern_parts[i + 1] # topic_parts[i + 1]
    THEN [done |-> TRUE, result |-> FALSE, i |-> i]
    ELSE topic_loop(pattern_parts, topic_parts, i + 1)
  ELSE [done |-> FALSE, result |-> FALSE, i |-> i]

\* A topic_matches whose `#` needs at least one more topic segment.
topic_matches_one_or_more(pattern, topic) ==
  LET pattern_parts == Split(pattern, "/")
      topic_parts == Split(topic, "/")
      l == topic_loop(pattern_parts, topic_parts, 0)
  IN  IF l.done THEN l.result
      ELSE l.i = Len(pattern_parts) /\ l.i = Len(topic_parts)

\* MessageProcessor::topic_matches
topic_matches(pattern, topic) ==
  LET pattern_parts == Split(pattern, "/")
      topic_parts == Split(topic, "/")
      l == topic_loop(pattern_parts, topic_parts, 0)
  IN  IF l.done THEN l.result
      ELSE IF l.i < Len(pattern_parts) /\ pattern_parts[l.i + 1] = <<"#">>
      THEN TRUE
      ELSE l.i = Len(pattern_parts) /\ l.i = Len(topic_parts)

(***************************************************************************)
(* The cron gate.  A cron expression (the cron crate's Schedule) is        *)
(* [fields, valid, seconds, minutes]: the number of its fields, whether    *)
(* they parse, and the seconds of the minute and the minutes (counted from *)
(* the epoch of the model) it designates.  A time is a number of seconds.  *)
(***************************************************************************)

CronExpr(fields, valid, seconds, minutes) ==
  [fields |-> fields, valid |-> valid, seconds |-> seconds,
   minutes |-> minutes]

\* The normalisation of schedule_matches_at: a 5-field expression gets
\* `0 ` prepended, the second 0.
NormalizeCron(schedule) ==
  IF schedule.fields = 5
  THEN [schedule EXCEPT !.fields = 6, !.seconds = {0}]
  ELSE schedule

\* Schedule::from_str: Ok(the instants designated) or Failure.
ScheduleFromStr(normalized) ==
  IF normalized.valid /\ normalized.fields \in {6, 7}
  THEN Ok({60 * m + sec : m \in normalized.minutes, sec \in normalized.seconds})
  ELSE Failure

\* A schedule_matches_at that looks for the next instant strictly after the
\* start of the minute.
schedule_matches_at_after_start(schedule, time) ==
  LET cron_schedule == ScheduleFromStr(NormalizeCron(schedule))
      current_minute_start == time - (time % 60)
      after == IF cron_schedule.ok
               THEN {t \in cron_schedule.v : t > current_minute_start}
               ELSE {}
  IN  /\ cron_schedule.ok
      /\ after # {}
      /\ Min(after) - (Min(after) % 60) = current_minute_start

\* MessageProcessor::schedule_matches_at
schedule_matches_at(schedule, time) ==
  LET cron_schedule == ScheduleFromStr(NormalizeCron(schedule))
      current_minute_start == time - (time % 60)
      check_from == current_minute_start - 1
      after == IF cron_schedule.ok
               THEN {t \in cron_schedule.v : t > check_from} ELSE {}
  IN  /\ cron_schedule.ok
      /\ after # {}
      /\ Min(after) - (Min(after) % 60) = current_minute_start

(***************************************************************************)
(* Points and the writer's input (src/bridge/influxdb.rs,                  *)
(* src/bridge/http.rs, src/config/types.rs)                                *)
(***************************************************************************)

\* struct PointConfig.  schedule is None or Some(cron expression); fields,
\* tags and httpcontent are maps from names to specifications.
PointConfig(measurement, topic, schedule, fields, tags, httpcontent) ==
  [measurement |-> measurement, topic |-> topic, schedule |-> schedule,
   fields |-> fields, tags |-> tags, httpcontent |-> httpcontent]

\* A JSON integer too large for the integers of the model: serde_json's
\* N::PosInt(u64), held by its decimal digits.
JPosInt(digits) == [type |-> "posint", digits |-> digits]

\* i64::MAX and u64::MAX, in decimal.
I64MaxText ==
  <<"9", "2", "2", "3", "3", "7", "2", "0", "3", "6", "8", "5", "4", "7",
    "7", "5", "8", "0", "7">>

U64MaxText ==
  <<"1", "8", "4", "4", "6", "7", "4", "4", "0", "7", "3", "7", "0", "9",
    "5", "5", "1", "6", "1", "5">>

\* a <= b for two decimal texts without leading zeros.
RECURSIVE DigitsLE(_, _)
DigitsLE(a, b) ==
  IF Len(a) # Len(b) THEN Len(a) < Len(b)
  ELSE IF Len(a) = 0 THEN TRUE
  ELSE IF a[1] = b[1] THEN DigitsLE(Tail(a), Tail(b))
  ELSE DigitVal(a[1]) < DigitVal(b[1])

\* Number::as_i64: the integer as Some(decimal text), None when the number
\* is a float or exceeds i64::MAX.
as_i64(value) ==
  CASE value.type = "int" -> Some(i64_to_string(value.n))
    [] value.type = "posint" ->
         IF DigitsLE(value.digits, I64MaxText) THEN Some(value.digits)
         ELSE None
    [] OTHER -> None

\* Number::as_u64: None for floats and negative integers.
as_u64(value) ==
  CASE value.type = "int" ->
         IF value.n >= 0 THEN Some(i64_to_string(value.n)) ELSE None
    [] value.type = "posint" -> Some(value.digits)
    [] OTHER -> None

\* A from_json that makes a String of whatever is not a number or a bool.
from_json_of_anything(value) ==
  CASE value.type = "int" ->
         [variant |-> "Int", text |-> i64_to_string(value.n)]
    [] value.type = "posint" -> [variant |-> "Int", text |-> value.digits]
    [] value.type = "float" -> [variant |-> "Float", f |-> value.f]
    [] value.type = "bool" -> [variant |-> "Bool", b |-> value.b]
    [] value.type = "string" -> [variant |-> "String", s |-> value.s]
    [] OTHER -> [variant |-> "String", s |-> json_to_string(value)]

\* FieldValue::from_json: None for null, arrays and objects.  Int and UInt
\* hold the decimal text of their integer.
FieldValue_from_json(value) ==
  LET Number(i, u) ==
        IF i # None THEN [variant |-> "Int", text |-> i.v]
        ELSE IF u # None THEN [variant |-> "UInt", text |-> u.v]
        ELSE [variant |-> "Float", f |-> value.f]
  IN  CASE value.type \in {"int", "posint", "float"} ->
             Number(as_i64(value), as_u64(value))
        [] value.type = "string" -> [variant |-> "String", s |-> value.s]
        [] value.type = "bool" -> [variant |-> "Bool", b |-> value.b]
        [] OTHER -> None

\* trim_matches('"')
TrimQuotes(s) == TrimEndMatches(TrimStartMatches(s, "\""), "\"")

\* The string a measurement or tag value becomes (process_point).
ValueText(value) ==
  IF value.type = "string" THEN value.s ELSE TrimQuotes(json_to_string(value))

\* The measurement name of process_point: Ok(name), or Failure when the
\* value-spec is absent.
MeasurementOf(point_config, parsed) ==
  LET Name(value) == IF value = None THEN Failure ELSE Ok(ValueText(value))
  IN  Name(get_value(point_config.measurement, parsed))

\* The map m without the keys whose value is None.
Present(m) == [k \in {x \in DOMAIN m : m[x] # None} |-> m[k]]

\* The tags process_point adds: those whose value is present and not empty.
TagsOf(point_config, parsed) ==
  LET Text(value) == IF value = None THEN None ELSE JString(ValueText(value))
      NotEmpty(text) == IF text = None \/ Len(text.s) = 0 THEN None ELSE text
      Kept(m) == [t \in DOMAIN m |-> m[t].s]
  IN  Kept(Present([t \in DOMAIN point_config.tags |->
             NotEmpty(Text(get_value(point_config.tags[t], parsed)))]))

\* A field loop that gives up the fields of the point when one of them is
\* absent.
FieldsOfAllOrNone(point_config, parsed) ==
  LET Field(value) ==
        IF value = None THEN None ELSE FieldValue_from_json(value)
      AllOrNone(m) == IF \E f \in DOMAIN m : m[f] = None THEN EmptyMap ELSE m
  IN  AllOrNone([f \in DOMAIN point_config.fields |->
                   Field(extract_field(point_config.fields[f], parsed))])

\* The fields process_point adds: those extract_field and from_json yield.
FieldsOf(point_config, parsed) ==
  LET Field(value) ==
        IF value = None THEN None ELSE FieldValue_from_json(value)
  IN  Present([f \in DOMAIN point_config.fields |->
                 Field(extract_field(point_config.fields[f], parsed))])

\* HttpContentBuilder::add_from_json: the string a JSON value is sent as.
ContentText(value) ==
  CASE value.type = "string" -> value.s
    [] value.type = "null" -> <<>>
    [] OTHER -> json_to_string(value)

\* The content map process_point builds from httpcontent.
HttpContentOf(point_config, parsed) ==
  LET Text(value) == IF value = None THEN None ELSE JString(ContentText(value))
      Kept(m) == [k \in DOMAIN m |-> m[k].s]
  IN  Kept(Present([k \in DOMAIN point_config.httpcontent |->
             Text(get_value(point_config.httpcontent[k], parsed))]))

\* A process_point without the check of fields_added.
BuildPointUnchecked(point_config, parsed, time) ==
  LET Built(measurement) ==
        IF ~measurement.ok THEN Failure
        ELSE Ok([measurement |-> measurement.v,
                 tags |-> TagsOf(point_config, parsed),
                 fields |-> FieldsOf(point_config, parsed),
                 timestamp |-> Some(time)])
  IN  Built(MeasurementOf(point_config, parsed))

\* The point process_point hands to write_point at time now: Ok(point), or
\* Failure when it returns before the write (no measurement, no field).
BuildPoint(point_config, parsed, time) ==
  LET Built(measurement, fields) ==
        IF ~measurement.ok THEN Failure
        ELSE IF Cardinality(DOMAIN fields) = 0 THEN Failure
        ELSE Ok([measurement |-> measurement.v,
                 tags |-> TagsOf(point_config, parsed),
                 fields |-> fields,
                 timestamp |-> Some(time)])
  IN  Built(MeasurementOf(point_config, parsed),
            FieldsOf(point_config, parsed))

\* The checks of process_message before process_point: the topic pattern
\* and the cron gate.
PassesGate(point_config, topic, time) ==
  /\ topic_matches(point_config.topic, topic)
  /\ \/ point_config.schedule = None
     \/ schedule_matches_at(point_config.schedule.v, time)

\* A process_point that forwards a content map without looking whether it
\* is empty.
ForwardsUnchecked(forwarder, httpcontent, content) ==
  /\ forwarder
  /\ Cardinality(DOMAIN httpcontent) # 0

\* Whether process_point, once write_point has returned Ok, calls
\* forward_json: forwarder tells whether one is configured, httpcontent is
\* the spec's map and content what was built from it.
Forwards(forwarder, httpcontent, content) ==
  /\ forwarder
  /\ Cardinality(DOMAIN httpcontent) # 0
  /\ Cardinality(DOMAIN content) # 0

(***************************************************************************)
(* The line protocol (src/bridge/influxdb.rs)                              *)
(***************************************************************************)

\* The printable ASCII characters in the order of their codes (the grave
\* accent left out).
Ascii ==
  <<
    " ", "!", "\"", "#", "$", "%", "&", "'", "(", ")", "*", "+",
    ",", "-", ".", "/", "0", "1", "2", "3", "4", "5", "6", "7",
    "8", "9", ":", ";", "<", "=", ">", "?", "@", "A", "B", "C",
    "D", "E", "F", "G", "H", "I", "J", "K", "L", "M", "N", "O",
    "P", "Q", "R", "S", "T", "U", "V", "W", "X", "Y", "Z", "[",
    "\\", "]", "^", "_", "a", "b", "c", "d", "e", "f", "g",
    "h", "i", "j", "k", "l", "m", "n", "o", "p", "q", "r", "s",
    "t", "u", "v", "w", "x", "y", "z", "{", "|", "}", "~"
  >>

\* The place of a character in that order.
CharCode(c) == CHOOSE i \in 1..Len(Ascii) : Ascii[i] = c

\* a < b for two Strings (Ord of str: byte by byte).
RECURSIVE StrLess(_, _)
StrLess(a, b) ==
  IF Len(b) = 0 THEN FALSE
  ELSE IF Len(a) = 0 THEN TRUE
  ELSE IF a[1] = b[1] THEN StrLess(Tail(a), Tail(b))
  ELSE CharCode(a[1]) < CharCode(b[1])

\* One step of the sort: pair goes behind the pairs whose key is not
\* greater than its own.
RECURSIVE InsertByKey(_, _)
InsertByKey(sorted, pair) ==
  IF Len(sorted) = 0 THEN << pair >>
  ELSE IF StrLess(pair[1], sorted[1][1]) THEN << pair >> \o sorted
  ELSE << sorted[1] >> \o InsertByKey(Tail(sorted), pair)

\* A sort that leaves the pairs as the map yields them.
sort_by_key_skipped(pairs) == pairs

\* Vec::sort_by_key(|(k, _)| *k) on << key, value >> pairs: stable, keys
\* ascending.
RECURSIVE sort_by_key(_)
sort_by_key(pairs) ==
  IF Len(pairs) = 0 THEN <<>>
  ELSE InsertByKey(sort_by_key(SubSeq(pairs, 1, Len(pairs) - 1)),
                   pairs[Len(pairs)])

\* An escape_measurement that escapes the backslash as well.
escape_measurement_with_backslash(s) ==
  ReplaceChar(ReplaceChar(ReplaceChar(s, "\\", <<"\\", "\\">>),
                          ",", <<"\\", ",">>), " ", <<"\\", " ">>)

escape_measurement(s) ==
  ReplaceChar(ReplaceChar(s, ",", <<"\\", ",">>), " ", <<"\\", " ">>)

\* An escape_tag_key that leaves `=` alone.
escape_tag_key_without_equals(s) ==
  ReplaceChar(ReplaceChar(s, ",", <<"\\", ",">>), " ", <<"\\", " ">>)

escape_tag_key(s) ==
  ReplaceChar(ReplaceChar(ReplaceChar(s, ",", <<"\\", ",">>),
                          "=", <<"\\", "=">>), " ", <<"\\", " ">>)

escape_tag_value(s) ==
  ReplaceChar(ReplaceChar(ReplaceChar(s, ",", <<"\\", ",">>),
                          "=", <<"\\", "=">>), " ", <<"\\", " ">>)

escape_field_key(s) ==
  ReplaceChar(ReplaceChar(ReplaceChar(s, ",", <<"\\", ",">>),
                          "=", <<"\\", "=">>), " ", <<"\\", " ">>)

escape_string_value(s) ==
  ReplaceChar(ReplaceChar(s, "\\", <<"\\", "\\">>), "\"", <<"\\", "\"">>)

\* struct Point.  tags and fields are maps; timestamp is None or Some(ns).
Point(measurement, tags, fields, timestamp) ==
  [measurement |-> measurement, tags |-> tags, fields |-> fields,
   timestamp |-> timestamp]

\* HashMap::iter().collect(): the entries of map m as << key, value >>
\* pairs, in the order iter of its keys.
Collect(m, iter) == [i \in 1..Len(iter) |-> << iter[i], m[iter[i]] >>]

\* The orders in which a HashMap may yield the keys of m.
IterOrders(m) ==
  { iter \in [1..Cardinality(DOMAIN m) -> DOMAIN m] :
      \A i, j \in DOMAIN iter : i # j => iter[i] # iter[j] }

\* Point::new
Point_new(measurement) == Point(measurement, EmptyMap, EmptyMap, None)

\* Point::field_from_json
field_from_json(point, key, value) ==
  LET Inserted(field_value) ==
        IF field_value # None
        THEN [point EXCEPT !.fields = MapInsert(@, key, field_value)]
        ELSE point
  IN  Inserted(FieldValue_from_json(value))

\* A tag loop that emits the tags of empty value too.
RECURSIVE TagSegmentWithEmpty(_, _)
TagSegmentWithEmpty(tag_pairs, i) ==
  IF i > Len(tag_pairs) THEN <<>>
  ELSE <<",">> \o escape_tag_key(tag_pairs[i][1]) \o <<"=">>
       \o escape_tag_value(tag_pairs[i][2])
       \o TagSegmentWithEmpty(tag_pairs, i + 1)

\* to_line_protocol, the loop over tag_pairs from pair i on.
RECURSIVE TagSegment(_, _)
TagSegment(tag_pairs, i) ==
  IF i > Len(tag_pairs) THEN <<>>
  ELSE (IF Len(tag_pairs[i][2]) # 0
        THEN <<",">> \o escape_tag_key(tag_pairs[i][1]) \o <<"=">>
             \o escape_tag_value(tag_pairs[i][2])
        ELSE <<>>)
       \o TagSegment(tag_pairs, i + 1)

\* to_line_protocol, value_str.  The floats of the model have no fraction.
FieldValueText(value) ==
  CASE value.variant = "Float" -> i64_to_string(value.f) \o <<".", "0">>
    [] value.variant = "Int" -> value.text \o <<"i">>
    [] value.variant = "UInt" -> value.text \o <<"u">>
    [] value.variant = "String" ->
         <<"\"">> \o escape_string_value(value.s) \o <<"\"">>
    [] value.variant = "Bool" -> IF value.b THEN S_true ELSE S_false

\* to_line_protocol, field_strs.join(",") from pair i on.
RECURSIVE FieldSegment(_, _)
FieldSegment(field_pairs, i) ==
  IF i > Len(field_pairs) THEN <<>>
  ELSE (IF i > 1 THEN <<",">> ELSE <<>>)
       \o escape_field_key(field_pairs[i][1]) \o <<"=">>
       \o FieldValueText(field_pairs[i][2])
       \o FieldSegment(field_pairs, i + 1)

\* Point::to_line_protocol.  tags_iter and fields_iter are the orders in
\* which the two HashMaps yield their keys.
to_line_protocol(point, tags_iter, fields_iter) ==
  escape_measurement(point.measurement)
  \o TagSegment(sort_by_key(Collect(point.tags, tags_iter)), 1)
  \o <<" ">>
  \o FieldSegment(sort_by_key(Collect(point.fields, fields_iter)), 1)
  \o (IF point.timestamp # None
      THEN <<" ">> \o i64_to_string(point.timestamp.v)
      ELSE <<>>)

(***************************************************************************)
(* The bridge (src/main.rs, src/bridge/mqtt.rs): configuration and inputs  *)
(***************************************************************************)

\* mpsc::channel::<MqttMessage>(100)
ChannelCapacity == 100

\* Deliveries the broker publishes in the general specification.
MaxMsgs == 2

\* Deliveries the broker publishes in the full-channel specification.
MaxBurst == 102

\* Failures of run_bridge the model follows.
MaxRestarts == 2

\* ConnAck events of one run of the handler.
MaxConnAcks == 3

\* Point specifications of a configuration whose topics are collected.
MaxTopicPoints == 3

\* The last instant of the clock, in seconds.
MaxTime == 60

\* config.base64decode
Base64Config == None

S_m == <<"m">>

S_v == <<"v">>

S_w == <<"w">>

S_k == <<"k">>

S_ok == <<"o", "k">>

\* The JSONPath `$.topic[1]`
P_topic_1 == <<"$", ".">> \o K_topic \o <<"[", "1", "]">>

\* The JSONPath `$.payload`
P_payload == <<"$", ".">> \o K_payload

\* The JSONPath `$.payload.t`
P_payload_t == P_payload \o <<".", "t">>

\* The JSONPath `$.payload.u`
P_payload_u == P_payload \o <<".", "u">>

\* The expression `=$.payload*2`
E_double == <<"=">> \o P_payload \o <<"*", "2">>

\* A cron expression of five fields that designates minute 1.
MinuteOne == CronExpr(5, TRUE, {0}, {1})

\* config.points, in the order of the configuration file.
Points ==
  << PointConfig(S_m, <<"a", "/", "#">>, None,
                 (S_v :> SimpleField(P_payload_t)), EmptyMap,
                 (S_k :> P_payload_t)),
     PointConfig(P_payload_t, <<"a", "/", "+">>, Some(MinuteOne),
                 (S_v :> SimpleField(S_ok)), EmptyMap, EmptyMap),
     PointConfig(S_m, <<"+", "/", "b">>, None,
                 (S_v :> SimpleField(P_topic_1)) @@
                 (S_w :> SimpleField(E_double)),
                 EmptyMap, (S_k :> P_payload_u)) >>

\* Vec::sort on Strings, one step: x goes before the first entry greater
\* than it.
RECURSIVE InsertString(_, _)
InsertString(sorted, x) ==
  IF Len(sorted) = 0 THEN << x >>
  ELSE IF StrLess(x, sorted[1]) THEN << x >> \o sorted
  ELSE << sorted[1] >> \o InsertString(Tail(sorted), x)

\* The Strings of a HashSet collected into a Vec and sorted.  The order in
\* which the set yields them does not show after the sort.
RECURSIVE SortedVec(_)
SortedVec(set) ==
  IF set = {} THEN <<>>
  ELSE LET x == CHOOSE y \in set : TRUE
       IN  InsertString(SortedVec(set \ {x}), x)

\* run_bridge: the topic of every point, collected into a HashSet, then
\* into a Vec that is sorted.
run_bridge_topics(points) ==
  SortedVec({points[i].topic : i \in DOMAIN points})

\* MqttHandler::new and what the model records of the handler's run:
\* accepted, the ConnAck events with code Success so far; events, the
\* ConnAck events so far; asked, the subscribe calls made since the
\* latest ConnAck with code Success; failed, whether the latest of these
\* calls returned an error.
MqttHandler_new(topics) ==
  [topics |-> topics, events |-> 0, accepted |-> 0, asked |-> <<>>,
   failed |-> FALSE]

\* Topics of the deliveries.
Topics == { <<"a", "/", "b">>, <<"a">> }

\* Payloads of the deliveries: `{"t":5}` and `5`.
Payloads == { <<"{", "\"", "t", "\"", ":", "5", "}">>, <<"5">> }

\* QoS levels of the deliveries.
QoSLevels == {1}

\* The delivery of the full-channel specification.
BurstTopic == <<"a">>

BurstPayload == <<"{", "\"", "t", "\"", ":", "5", "}">>

\* struct MqttMessage; id numbers the deliveries in the order the broker
\* task received them.
MqttMessage(id, topic, payload, qos) ==
  [id |-> id, topic |-> topic, payload |-> payload, qos |-> qos]

\* process_message: the match on the result of parse_message.  An Err is
\* logged and the delivery dropped before the loop over the point specs.
process_message_parse(base64_config, msg) ==
  LET Matched(result) ==
        IF result.ok THEN [dropped |-> FALSE, parsed |-> Some(result.v)]
        ELSE [dropped |-> TRUE, parsed |-> None]
  IN  Matched(parse_message(base64_config, msg.topic, msg.payload, msg.qos))

\* The message process_message works on.
Parsed(msg) == process_message_parse(Base64Config, msg).parsed.v

\* The instants of the clock.
Times == {t \in 0..MaxTime : t % 30 = 0}

\* Whether process_message, examining spec i at time, reaches the
\* write_point call of process_point.
ReachesWrite(i, msg, time) ==
  /\ ~process_message_parse(Base64Config, msg).dropped
  /\ PassesGate(Points[i], msg.topic, time)
  /\ BuildPoint(Points[i], Parsed(msg), time).ok

\* Whether process_point, once the write_point call for spec i has returned
\* Ok, calls forward_json.
ReachesForward(i, msg, forwarder) ==
  Forwards(forwarder, Points[i].httpcontent,
           HttpContentOf(Points[i], Parsed(msg)))

\* ReachesWrite and ReachesForward on every spec, delivery and instant of
\* the model, and the deliveries parse_message accepts, computed once: the
\* keys on which they hold.
Memo(forwarder) ==
  [reaches |->
     {x \in (1..Len(Points)) \X Topics \X Payloads \X QoSLevels \X Times :
        ReachesWrite(x[1], MqttMessage(0, x[2], x[3], x[4]), x[5])},
   forwards |->
     {x \in (1..Len(Points)) \X Topics \X Payloads \X QoSLevels :
        ReachesForward(x[1], MqttMessage(0, x[2], x[3], x[4]), forwarder)},
   parses |->
     {x \in Topics \X Payloads \X QoSLevels :
        ~process_message_parse(Base64Config,
                               MqttMessage(0, x[1], x[2], x[3])).dropped}]

(***************************************************************************)
(* State                                                                   *)
(***************************************************************************)

VARIABLES
  daemon,          \* args.daemon
  http_forwarder,  \* whether run_bridge builds an HttpForwarder
  cancelled,       \* cancel_token
  main_pc,         \* where main is
  bridge_runs,     \* calls of run_bridge so far
  sleep_elapsed,   \* whether the 30 s of the retry wait have passed
  broker_pc,       \* where mqtt_handler.run is
  pending,         \* the message run is sending, or None
  channel,         \* the messages in the channel
  dispatch_pc,     \* where the dispatch task is
  cur,             \* the delivery dispatched last, or None
  trail,           \* what process_message did for cur, one entry per spec
  now,             \* the clock, in seconds
  received,        \* publish events run has received
  dequeued,        \* ids of the deliveries dispatched, in order
  write_order,     \* ids of the deliveries written, in order of the calls
  late,            \* ids dequeued after the cancellation
  memo,            \* what the pure functions yield on the model's inputs
  probe,           \* a call of one function: its name, input and result
  handler          \* the MqttHandler of run_bridge, or None

vars == << daemon, http_forwarder, cancelled, main_pc, bridge_runs,
           sleep_elapsed, broker_pc, pending, channel, dispatch_pc, cur,
           trail, now, received, dequeued, write_order, late, memo,
           probe, handler >>

main_vars == << main_pc, bridge_runs, sleep_elapsed >>

broker_vars == << broker_pc, pending, received >>

dispatch_vars == << dispatch_pc, cur, trail, dequeued, write_order, late >>

config_vars == << daemon, http_forwarder, memo, probe, handler >>

Init ==
  /\ daemon \in BOOLEAN
  /\ http_forwarder \in BOOLEAN
  /\ cancelled = FALSE
  /\ main_pc = "run_bridge"
  /\ bridge_runs = 0
  /\ sleep_elapsed = FALSE
  /\ broker_pc = "none"
  /\ pending = None
  /\ channel = <<>>
  /\ dispatch_pc = "none"
  /\ cur = None
  /\ trail = <<>>
  /\ now = 0
  /\ received = 0
  /\ dequeued = <<>>
  /\ write_order = <<>>
  /\ late = {}
  /\ memo = Memo(http_forwarder)
  /\ probe = None
  /\ handler = None

(***************************************************************************)
(* The dispatch task: process_message and process_point (src/main.rs)      *)
(***************************************************************************)

\* One entry of trail: what became of point spec idx, examined at time at.
\* write is "skip" (no write_point call), "pending", "ok" or "err";
\* forward is "none" (no forward_json call), "pending", "ok" or "err".
TrailEntry(idx, at, write, forward) ==
  [idx |-> idx, at |-> at, write |-> write, forward |-> forward]

RECURSIVE ExamineFrom(_, _, _, _)
\* The loop `for point_config in points` from spec i on, up to the next
\* write_point call: the trail it leaves and where the task then is.
ExamineFrom(i, msg, time, entries) ==
  IF i > Len(Points) THEN [trail |-> entries, pc |-> "recv"]
  ELSE IF <<i, msg.topic, msg.payload, msg.qos, time>> \in memo.reaches
  THEN [trail |-> Append(entries, TrailEntry(i, time, "pending", "none")),
        pc |-> "write"]
  ELSE ExamineFrom(i + 1, msg, time,
                   Append(entries, TrailEntry(i, time, "skip", "none")))

\* The trail with its last entry changed.
SetLast(entries, field, value) ==
  [entries EXCEPT ![Len(entries)] =
     IF field = "write" THEN [@ EXCEPT !.write = value]
     ELSE [@ EXCEPT !.forward = value]]

\* A receive that takes the message sent last.
ChannelRecvNewest(ch) ==
  [msg |-> ch[Len(ch)], rest |-> SubSeq(ch, 1, Len(ch) - 1)]

\* What rx.recv() yields from a channel that holds messages.
ChannelRecv(ch) == [msg |-> Head(ch), rest |-> Tail(ch)]

\* The sender is owned by the future of mqtt_handler.run(tx).
SenderAlive == broker_pc \in {"poll", "subscribe", "send", "backoff"}

\* The receiver is owned by the dispatch task.
ReceiverAlive == dispatch_pc \in {"recv", "write", "forward"}

\* process_message from its start: a delivery parse_message rejects is
\* logged and dropped, the others go through the loop over the point specs.
ProcessMessage(msg, time) ==
  IF << msg.topic, msg.payload, msg.qos >> \in memo.parses
  THEN ExamineFrom(1, msg, time, <<>>)
  ELSE [trail |-> <<>>, pc |-> "recv"]

\* select!, branch `msg = rx.recv()` with Some(msg): process_message runs
\* up to its first write_point call, or to its end.  select! polls its
\* branches in random order, so this branch may run although the token is
\* cancelled.
DispatchDequeue ==
  /\ dispatch_pc = "recv"
  /\ Len(channel) > 0
  /\ \E got \in {ChannelRecv(channel)} :
       \E step \in {ProcessMessage(got.msg, now)} :
         /\ channel' = got.rest
         /\ cur' = got.msg
         /\ dequeued' = Append(dequeued, got.msg.id)
         /\ late' = IF cancelled THEN late \cup {got.msg.id} ELSE late
         /\ trail' = step.trail
         /\ dispatch_pc' = step.pc
         /\ write_order' = IF step.pc = "write"
                           THEN Append(write_order, got.msg.id)
                           ELSE write_order
  /\ UNCHANGED << config_vars, cancelled, main_vars, broker_vars, now >>

\* select!, branch `msg = rx.recv()` with None: the sender is dropped and
\* the channel is empty.
DispatchClosed ==
  /\ dispatch_pc = "recv"
  /\ Len(channel) = 0
  /\ ~SenderAlive
  /\ dispatch_pc' = "done"
  /\ channel' = <<>>
  /\ UNCHANGED << config_vars, cancelled, main_vars, broker_vars, cur, trail,
                  dequeued, write_order, late, now >>

\* A dispatch task that the cancellation ends wherever it is, in the midst
\* of a delivery too.
DispatchCancelledAnywhere ==
  /\ dispatch_pc \in {"recv", "write", "forward"}
  /\ cancelled
  /\ dispatch_pc' = "done"
  /\ channel' = <<>>
  /\ UNCHANGED << config_vars, cancelled, main_vars, broker_vars, cur, trail,
                  dequeued, write_order, late, now >>

\* select!, branch `cancel_token.cancelled()`: the task ends and the
\* receiver is dropped with what the channel holds.
DispatchCancelled ==
  /\ dispatch_pc = "recv"
  /\ cancelled
  /\ dispatch_pc' = "done"
  /\ channel' = <<>>
  /\ UNCHANGED << config_vars, cancelled, main_vars, broker_vars, cur, trail,
                  dequeued, write_order, late, now >>

\* A dispatch that gives up the delivery when write_point fails.
AfterWriteAborting(write_ok, entries, msg, time) ==
  IF write_ok
  THEN ExamineFrom(entries[Len(entries)].idx + 1, msg, time,
                   SetLast(entries, "write", "ok"))
  ELSE [trail |-> SetLast(entries, "write", "err"), pc |-> "recv"]

\* A dispatch that does not await write_point before the next spec.
AfterWriteNotAwaited(write_ok, entries, msg, time) ==
  ExamineFrom(entries[Len(entries)].idx + 1, msg, time, entries)

\* What process_message does once the write_point call for spec idx has
\* returned.  An error leaves process_point at once (the `?`) and is
\* logged; after Ok comes the forward_json call of the same spec, if any.
\* Then come the specs after idx.
AfterWrite(write_ok, entries, msg, time) ==
  LET idx == entries[Len(entries)].idx
  IN  IF ~write_ok
      THEN ExamineFrom(idx + 1, msg, time, SetLast(entries, "write", "err"))
      ELSE IF <<idx, msg.topic, msg.payload, msg.qos>> \in memo.forwards
      THEN [trail |-> SetLast(SetLast(entries, "write", "ok"),
                              "forward", "pending"),
            pc |-> "forward"]
      ELSE ExamineFrom(idx + 1, msg, time, SetLast(entries, "write", "ok"))

\* influxdb_writer.write_point(...).await returns.
WriteReturns ==
  /\ dispatch_pc = "write"
  /\ \E write_ok \in BOOLEAN :
       \E step \in {AfterWrite(write_ok, trail, cur, now)} :
         /\ trail' = step.trail
         /\ dispatch_pc' = step.pc
         /\ write_order' = IF step.pc = "write"
                           THEN Append(write_order, cur.id)
                           ELSE write_order
  /\ UNCHANGED << config_vars, cancelled, main_vars, broker_vars, channel,
                  cur, dequeued, late, now >>

\* What process_message does once forward_json has returned: an error is
\* only logged.
AfterForward(forward_ok, entries, msg, time) ==
  ExamineFrom(entries[Len(entries)].idx + 1, msg, time,
              SetLast(entries, "forward", IF forward_ok THEN "ok" ELSE "err"))

\* forwarder.forward_json(...).await returns.
ForwardReturns ==
  /\ dispatch_pc = "forward"
  /\ \E forward_ok \in BOOLEAN :
       \E step \in {AfterForward(forward_ok, trail, cur, now)} :
         /\ trail' = step.trail
         /\ dispatch_pc' = step.pc
         /\ write_order' = IF step.pc = "write"
                           THEN Append(write_order, cur.id)
                           ELSE write_order
  /\ UNCHANGED << config_vars, cancelled, main_vars, broker_vars, channel,
                  cur, dequeued, late, now >>

(***************************************************************************)
(* The broker task: MqttHandler::run (src/bridge/mqtt.rs)                  *)
(***************************************************************************)

\* eventloop.poll() yields a Publish: run builds the MqttMessage and begins
\* tx.send(msg).  max bounds the deliveries.
BrokerPublish(topic, payload, qos, max) ==
  /\ main_pc = "running"
  /\ broker_pc = "poll"
  /\ received < max
  /\ received' = received + 1
  /\ pending' = MqttMessage(received + 1, topic, payload, qos)
  /\ broker_pc' = "send"
  /\ UNCHANGED << config_vars, cancelled, main_vars, channel, dispatch_vars,
                  now >>

\* A publish of the general specification.
Publish ==
  \E topic \in Topics, payload \in Payloads, qos \in QoSLevels :
    BrokerPublish(topic, payload, qos, MaxMsgs)

\* A publish of the full-channel specification.
PublishBurst ==
  \E qos \in QoSLevels : BrokerPublish(BurstTopic, BurstPayload, qos, MaxBurst)

\* A channel without a bound.
SendReadyUnbounded(ch) == TRUE

\* Whether tx.send(msg).await can complete with Ok: the channel has room.
\* While it has none the send stays pending.
SendReady(ch) == Len(ch) < ChannelCapacity

\* tx.send(msg).await completes with Ok(()).
BrokerSend ==
  /\ main_pc = "running"
  /\ broker_pc = "send"
  /\ ReceiverAlive
  /\ SendReady(channel)
  /\ channel' = Append(channel, pending)
  /\ pending' = None
  /\ broker_pc' = "poll"
  /\ UNCHANGED << config_vars, cancelled, main_vars, received, dispatch_vars,
                  now >>

\* tx.send(msg).await completes with Err: the receiver is dropped; run
\* breaks out of its loop and returns Ok(()).
BrokerSendFails ==
  /\ main_pc = "running"
  /\ broker_pc = "send"
  /\ ~ReceiverAlive
  /\ pending' = None
  /\ broker_pc' = "returned"
  /\ UNCHANGED << config_vars, cancelled, main_vars, received, channel,
                  dispatch_vars, now >>

\* eventloop.poll() yields Err(e): run logs the error and begins its sleep
\* of one second.
BrokerPollError ==
  /\ main_pc = "running"
  /\ broker_pc = "poll"
  /\ broker_pc' = "backoff"
  /\ UNCHANGED << config_vars, cancelled, main_vars, pending, received,
                  channel, dispatch_vars, now >>

\* The sleep of one second ends and run polls the event loop again.
BrokerBackoffElapses ==
  /\ main_pc = "running"
  /\ broker_pc = "backoff"
  /\ broker_pc' = "poll"
  /\ UNCHANGED << config_vars, cancelled, main_vars, pending, received,
                  channel, dispatch_vars, now >>

\* A handler that subscribes after its first ConnAck only.
on_connack_first_only(h, success) ==
  IF success /\ h.accepted = 0
  THEN [handler |-> [h EXCEPT !.events = @ + 1, !.accepted = @ + 1,
                              !.asked = <<>>, !.failed = FALSE],
        pc |-> IF Len(h.topics) = 0 THEN "poll" ELSE "subscribe"]
  ELSE IF success
  THEN [handler |-> [h EXCEPT !.events = @ + 1, !.accepted = @ + 1,
                              !.asked = <<>>, !.failed = FALSE],
        pc |-> "poll"]
  ELSE [handler |-> [h EXCEPT !.events = @ + 1], pc |-> "poll"]

\* The ConnAck arm of run: with code Success it begins subscribe_topics,
\* whose for loop makes no call when there is no topic; any other code is
\* only logged.
on_connack(h, success) ==
  IF success
  THEN [handler |-> [h EXCEPT !.events = @ + 1, !.accepted = @ + 1,
                              !.asked = <<>>, !.failed = FALSE],
        pc |-> IF Len(h.topics) = 0 THEN "poll" ELSE "subscribe"]
  ELSE [handler |-> [h EXCEPT !.events = @ + 1], pc |-> "poll"]

\* eventloop.poll() yields a ConnAck, of the first connection or of a
\* reconnection.
BrokerConnAck ==
  /\ main_pc = "running"
  /\ broker_pc = "poll"
  /\ handler.v.events < MaxConnAcks
  /\ \E success \in BOOLEAN :
       \E step \in {on_connack(handler.v, success)} :
         /\ handler' = Some(step.handler)
         /\ broker_pc' = step.pc
  /\ UNCHANGED << daemon, http_forwarder, memo, probe, cancelled, main_vars,
                  pending, received, channel, dispatch_vars, now >>

\* subscribe_topics once client.subscribe(topic, QoS::AtLeastOnce).await
\* has returned for the next topic: Err leaves the function at once (the
\* `?`) and run only logs it; after Ok comes the topic behind it, and
\* Ok(()) after the last.
after_subscribe(h, ok) ==
  LET asked == Append(h.asked, h.topics[Len(h.asked) + 1])
  IN  [handler |-> [h EXCEPT !.asked = asked, !.failed = ~ok],
       pc |-> IF ok /\ Len(asked) < Len(h.topics) THEN "subscribe"
              ELSE "poll"]

\* client.subscribe(...).await returns.
BrokerSubscribeReturns ==
  /\ main_pc = "running"
  /\ broker_pc = "subscribe"
  /\ \E ok \in BOOLEAN :
       \E step \in {after_subscribe(handler.v, ok)} :
         /\ handler' = Some(step.handler)
         /\ broker_pc' = step.pc
  /\ UNCHANGED << daemon, http_forwarder, memo, probe, cancelled, main_vars,
                  pending, received, channel, dispatch_vars, now >>

(***************************************************************************)
(* main and run_bridge (src/main.rs)                                       *)
(***************************************************************************)

\* The signal task: shutdown_signal() completes and the token is cancelled.
Cancel ==
  /\ ~cancelled
  /\ main_pc \notin {"exit_ok", "exit_err"}
  /\ cancelled' = TRUE
  /\ UNCHANGED << config_vars, main_vars, broker_vars, channel,
                  dispatch_vars, now >>

\* run_bridge builds its handler, writer and channel, spawns the dispatch
\* task and polls its select! for the first time, with no await before.
\* If the token is cancelled by then the select! completes at once: the
\* first poll of mqtt_handler.run only begins to connect.
\* The handler holds the topics run_bridge collected from points.
RunBridgeWith(points) ==
  /\ main_pc = "run_bridge"
  /\ bridge_runs' = bridge_runs + 1
  /\ handler' = Some(MqttHandler_new(run_bridge_topics(points)))
  /\ main_pc' = IF cancelled THEN "join" ELSE "running"
  /\ broker_pc' = IF cancelled THEN "none" ELSE "poll"
  /\ pending' = None
  /\ channel' = <<>>
  /\ dispatch_pc' = "recv"
  /\ UNCHANGED << daemon, http_forwarder, memo, probe, cancelled,
                  sleep_elapsed, received, cur, trail, dequeued,
                  write_order, late, now >>

\* run_bridge with the points of the model's configuration.
RunBridgeStarts == RunBridgeWith(Points)

\* A main that retries whether or not it runs as a daemon.
AfterBridgeErrorAlwaysRetry(is_cancelled, is_daemon) ==
  IF is_cancelled THEN "exit_ok" ELSE "retry_wait"

\* A main that does not look at the token when run_bridge fails.
AfterBridgeErrorUnchecked(is_cancelled, is_daemon) ==
  IF ~is_daemon THEN "exit_err" ELSE "retry_wait"

\* Where main goes when run_bridge has returned Err(e).
AfterBridgeError(is_cancelled, is_daemon) ==
  IF is_cancelled THEN "exit_ok"
  ELSE IF ~is_daemon THEN "exit_err"
  ELSE "retry_wait"

\* run_bridge returns Err(e) from MqttHandler::new; main's match arm runs
\* up to its select!.
RunBridgeFails ==
  /\ main_pc = "run_bridge"
  /\ bridge_runs < MaxRestarts
  /\ bridge_runs' = bridge_runs + 1
  /\ main_pc' = AfterBridgeError(cancelled, daemon)
  /\ sleep_elapsed' = FALSE
  /\ UNCHANGED << config_vars, cancelled, broker_vars, channel,
                  dispatch_vars, now >>

\* The select! of run_bridge completes: mqtt_handler.run returned, or the
\* token is cancelled.  The future of run is dropped, and the sender with
\* it.
BridgeSelect ==
  /\ main_pc = "running"
  /\ broker_pc = "returned" \/ cancelled
  /\ main_pc' = "join"
  /\ broker_pc' = "none"
  /\ pending' = None
  /\ UNCHANGED << config_vars, cancelled, bridge_runs, sleep_elapsed,
                  received, channel, dispatch_vars, now >>

\* A main that loops when run_bridge returns Ok(()).
BridgeJoinRestarts ==
  /\ main_pc = "join"
  /\ dispatch_pc = "done"
  /\ main_pc' = "run_bridge"
  /\ UNCHANGED << config_vars, cancelled, bridge_runs, sleep_elapsed,
                  broker_vars, channel, dispatch_vars, now >>

\* process_task.await completes; run_bridge returns Ok(()) and main breaks
\* out of its loop.
BridgeJoin ==
  /\ main_pc = "join"
  /\ dispatch_pc = "done"
  /\ main_pc' = "exit_ok"
  /\ UNCHANGED << config_vars, cancelled, bridge_runs, sleep_elapsed,
                  broker_vars, channel, dispatch_vars, now >>

\* The 30 s of tokio::time::sleep pass.
SleepElapses ==
  /\ main_pc = "retry_wait"
  /\ ~sleep_elapsed
  /\ sleep_elapsed' = TRUE
  /\ UNCHANGED << config_vars, cancelled, main_pc, bridge_runs, broker_vars,
                  channel, dispatch_vars, now >>

\* The retry select!, branch sleep: main loops and calls run_bridge again.
RetryAgain ==
  /\ main_pc = "retry_wait"
  /\ sleep_elapsed
  /\ main_pc' = "run_bridge"
  /\ UNCHANGED << config_vars, cancelled, bridge_runs, sleep_elapsed,
                  broker_vars, channel, dispatch_vars, now >>

\* The retry select!, branch cancelled: main breaks out of its loop.
RetryCancelled ==
  /\ main_pc = "retry_wait"
  /\ cancelled
  /\ main_pc' = "exit_ok"
  /\ UNCHANGED << config_vars, cancelled, bridge_runs, sleep_elapsed,
                  broker_vars, channel, dispatch_vars, now >>

\* Time passes.
Tick ==
  /\ now + 30 <= MaxTime
  /\ main_pc \notin {"exit_ok", "exit_err"}
  /\ now' = now + 30
  /\ UNCHANGED << config_vars, cancelled, main_vars, broker_vars, channel,
                  dispatch_vars >>

Next ==
  \/ Cancel
  \/ RunBridgeStarts
  \/ RunBridgeFails
  \/ BridgeSelect
  \/ BridgeJoin
  \/ SleepElapses
  \/ RetryAgain
  \/ RetryCancelled
  \/ Publish
  \/ BrokerSend
  \/ BrokerSendFails
  \/ BrokerPollError
  \/ BrokerBackoffElapses
  \/ DispatchDequeue
  \/ DispatchClosed
  \/ DispatchCancelled
  \/ WriteReturns
  \/ ForwardReturns
  \/ Tick

Spec == Init /\ [][Next]_vars

\* What the scheduler and the environment guarantee: every task that can
\* take a step takes it, and a write_point or forward_json call returns.
Fairness ==
  /\ WF_vars(RunBridgeStarts \/ RunBridgeFails)
  /\ WF_vars(BridgeSelect)
  /\ WF_vars(BridgeJoin)
  /\ WF_vars(RetryAgain \/ RetryCancelled)
  /\ WF_vars(BrokerSend)
  /\ WF_vars(BrokerSendFails)
  /\ WF_vars(BrokerBackoffElapses)
  /\ WF_vars(DispatchDequeue \/ DispatchClosed \/ DispatchCancelled)
  /\ WF_vars(WriteReturns)
  /\ WF_vars(ForwardReturns)

FairSpec == Spec /\ Fairness

\* The bridge while no shutdown is signalled, under a burst of publishes
\* that fills the channel.
NextChan ==
  \/ RunBridgeStarts
  \/ PublishBurst
  \/ BrokerSend
  \/ DispatchDequeue
  \/ WriteReturns
  \/ ForwardReturns

SpecChan == Init /\ [][NextChan]_vars

FairSpecChan ==
  /\ SpecChan
  /\ WF_vars(RunBridgeStarts)
  /\ WF_vars(BrokerSend)
  /\ WF_vars(DispatchDequeue)
  /\ WF_vars(WriteReturns)
  /\ WF_vars(ForwardReturns)

(***************************************************************************)
(* The functions on their own: each specification below draws the input   *)
(* of one call in its initial state and applies the function to it.  The   *)
(* bridge stays as main finds it.                                          *)
(***************************************************************************)

\* The strings of at most n characters of A.
StringsUpTo(A, n) == UNION { [1..k -> A] : k \in 0..n }

\* A call that has not returned, and the same call with its result.
Call(op, arg) == [op |-> op, arg |-> arg, out |-> None]

Returned(call, result) == [call EXCEPT !.out = Some(result)]

\* The bridge before main's loop, with no configuration of interest.
BridgeIdle ==
  /\ daemon = FALSE
  /\ http_forwarder = FALSE
  /\ cancelled = FALSE
  /\ main_pc = "run_bridge"
  /\ bridge_runs = 0
  /\ sleep_elapsed = FALSE
  /\ broker_pc = "none"
  /\ pending = None
  /\ channel = <<>>
  /\ dispatch_pc = "none"
  /\ cur = None
  /\ trail = <<>>
  /\ now = 0
  /\ received = 0
  /\ dequeued = <<>>
  /\ write_order = <<>>
  /\ late = {}
  /\ memo = [reaches |-> {}, forwards |-> {}, parses |-> {}]
  /\ handler = None

\* What a call leaves alone.
bridge_vars == << daemon, http_forwarder, cancelled, main_vars, broker_vars,
                 channel, dispatch_vars, now, memo, handler >>

\* Longest pattern and longest topic of the calls of topic_matches.
MaxPatternLen == 4

MaxTopicLen == 3

PatternChars == {"a", "/", "+", "#"}

TopicChars == {"a", "b", "/"}

InitTopic ==
  /\ BridgeIdle
  /\ \E pattern \in StringsUpTo(PatternChars, MaxPatternLen),
        topic \in StringsUpTo(TopicChars, MaxTopicLen) :
       probe = Call("topic_matches", << pattern, topic >>)

ApplyTopicMatches ==
  /\ probe.op = "topic_matches"
  /\ probe.out = None
  /\ probe' = Returned(probe, topic_matches(probe.arg[1], probe.arg[2]))
  /\ UNCHANGED bridge_vars

NextTopic == ApplyTopicMatches

SpecTopic == InitTopic /\ [][NextTopic]_vars

\* The maps from a subset of K to V.
Maps(K, V) == UNION { [D -> V] : D \in SUBSET K }

\* Tags and fields of the points whose entries the encoder has to put in
\* order: `B` sorts before `a`.
LineTagKeys == { <<"a">>, <<"b">>, <<"B">> }

LineTagValues == { <<>>, <<"x">> }

LineFieldKeys == { <<"v">>, <<"V">> }

IntOne == [variant |-> "Int", text |-> <<"1">>]

OrderingPoints ==
  { Point(<<"m">>, tags, fields, timestamp) :
      tags \in Maps(LineTagKeys, LineTagValues),
      fields \in Maps(LineFieldKeys, {IntOne}) \ {EmptyMap},
      timestamp \in {None, Some(7)} }

\* Longest measurement, key or tag value of the points whose names the
\* encoder has to escape.
MaxNameLen == 2

EscapeChars == {"m", ",", " ", "=", "\\"}

Names == StringsUpTo(EscapeChars, MaxNameLen) \ {<<>>}

EscapingPoints ==
  { Point(measurement, tags, (<<"v">> :> IntOne), None) :
      measurement \in Names,
      tags \in {EmptyMap} \cup { (key :> <<"x">>) : key \in Names }
                \cup { (<<"k">> :> value) : value \in Names } }
  \cup { Point(<<"m">>, EmptyMap, (key :> IntOne), None) : key \in Names }

\* The JSON values handed to field_from_json.
JsonSamples ==
  { JInt(0 - 1), JInt(0), JInt(42), JFloat(2),
    JPosInt(I64MaxText),
    JPosInt(<<"9", "2", "2", "3", "3", "7", "2", "0", "3", "6", "8", "5",
              "4", "7", "7", "5", "8", "0", "8">>),
    JPosInt(U64MaxText),
    JString(<<>>), JString(<<"o", "k">>), JString(<<"a", "\\", "\"", "b">>),
    JBool(TRUE), JBool(FALSE), JNull,
    JArray(<<>>), JArray(<< JInt(1) >>),
    JObject(EmptyMap), JObject((<<"k">> :> JInt(1))) }

InitLine ==
  /\ BridgeIdle
  /\ \/ \E point \in OrderingPoints \cup EscapingPoints :
          \E tags_iter \in IterOrders(point.tags),
             fields_iter \in IterOrders(point.fields) :
            probe = Call("to_line_protocol",
                         << point, tags_iter, fields_iter >>)
     \/ \E value \in JsonSamples :
          probe = Call("field_from_json", << value >>)

ApplyToLineProtocol ==
  /\ probe.op = "to_line_protocol"
  /\ probe.out = None
  /\ probe' = Returned(probe, to_line_protocol(probe.arg[1], probe.arg[2],
                                               probe.arg[3]))
  /\ UNCHANGED bridge_vars

\* Point::new("m").field_from_json("v", value).to_line_protocol()
ApplyFieldFromJson ==
  /\ probe.op = "field_from_json"
  /\ probe.out = None
  /\ \E point \in {field_from_json(Point_new(<<"m">>), <<"v">>,
                                    probe.arg[1])} :
       \E fields_iter \in IterOrders(point.fields) :
         probe' = Returned(probe,
                    [point |-> point,
                     line |-> to_line_protocol(point, <<>>, fields_iter)])
  /\ UNCHANGED bridge_vars

\* The JSONPath `$.payload.s`
P_payload_s == P_payload \o <<".", "s">>

\* The expressions `=$.payload.t*2`, `=$.payload.x+1` (x is never bound)
\* and `=2*` (no expression).
E_t_double == <<"=">> \o P_payload_t \o <<"*", "2">>

E_unbound == <<"=">> \o P_payload \o <<".", "x", "+", "1">>

E_broken == <<"=", "2", "*">>

TagSpecs == { <<>>, P_payload_t, P_payload_s, S_ok }

FieldSpecs ==
  { SimpleField(P_payload_t), SimpleField(P_payload_s),
    SimpleField(E_t_double), SimpleField(E_unbound), SimpleField(E_broken),
    TypedField(P_payload_s, Some(T_int)) }

\* Point specifications handed to process_point: one tag of every kind with
\* a field, no tag with one or two fields of every kind, and a measurement
\* read from the payload.
PointSamples ==
  { PointConfig(S_m, <<"a">>, None, (S_v :> SimpleField(S_ok)), tags,
                EmptyMap) : tags \in Maps({S_k}, TagSpecs) }
  \cup { PointConfig(S_m, <<"a">>, None, fields, EmptyMap, EmptyMap) :
           fields \in Maps({S_v, S_w}, FieldSpecs) \ {EmptyMap} }
  \cup { PointConfig(P_payload_s, <<"a">>, None,
                     (S_v :> SimpleField(P_payload_t)), EmptyMap, EmptyMap) }

\* Their payloads: `{"t":5}`, `{"t":null}`, `{"s":""}`, `{"s":"x"}`, `5`.
PointPayloads ==
  { <<"{", "\"", "t", "\"", ":", "5", "}">>,
    <<"{", "\"", "t", "\"", ":", "n", "u", "l", "l", "}">>,
    <<"{", "\"", "s", "\"", ":", "\"", "\"", "}">>,
    <<"{", "\"", "s", "\"", ":", "\"", "x", "\"", "}">>,
    <<"5">> }

\* The message of a call of process_point.
ParsedOf(call) == parse_message(Base64Config, <<"a">>, call.arg[2], 1).v

InitPoint ==
  /\ BridgeIdle
  /\ \E point_config \in PointSamples, payload \in PointPayloads :
       probe = Call("process_point", << point_config, payload >>)

\* process_point up to the write, and the line write_point renders.
ApplyProcessPoint ==
  /\ probe.op = "process_point"
  /\ probe.out = None
  /\ \E built \in {BuildPoint(probe.arg[1], ParsedOf(probe), 7)} :
       IF built.ok
       THEN \E tags_iter \in IterOrders(built.v.tags),
               fields_iter \in IterOrders(built.v.fields) :
              probe' = Returned(probe,
                         [built |-> built,
                          line |-> Some(to_line_protocol(built.v, tags_iter,
                                                         fields_iter))])
       ELSE probe' = Returned(probe, [built |-> built, line |-> None])
  /\ UNCHANGED bridge_vars

NextEncode ==
  \/ ApplyToLineProtocol
  \/ ApplyFieldFromJson
  \/ ApplyProcessPoint

InitEncode == InitLine \/ InitPoint

SpecEncode == InitEncode /\ [][NextEncode]_vars

\* Longest of the value-spec strings drawn from SpecChars.
MaxSpecLen == 3

SpecChars == {"=", "$", ".", "t", "+"}

\* The expression `=1+2`, which holds no `$.`, and the string `t$.t`, which
\* holds one but is no JSONPath.
E_sum == <<"=", "1", "+", "2">>

S_not_a_path == <<"t", "$", ".", "t">>

ValueSpecs ==
  StringsUpTo(SpecChars, MaxSpecLen)
  \cup { P_payload, P_payload_t, P_payload_s, P_topic_1, E_double,
         E_t_double, E_unbound, E_broken, E_sum, S_not_a_path, S_ok }

InitValue ==
  /\ BridgeIdle
  /\ \E spec \in ValueSpecs, payload \in PointPayloads :
       probe = Call("get_value", << spec, payload >>)

ApplyGetValue ==
  /\ probe.op = "get_value"
  /\ probe.out = None
  /\ probe' = Returned(probe, get_value(probe.arg[1], ParsedOf(probe)))
  /\ UNCHANGED bridge_vars

\* struct Base64DecodeConfig
Base64DecodeConfig(source, target) == [source |-> source, target |-> target]

\* Payloads of parse_message: nothing, JSON texts, texts that are no JSON
\* (`abc`, a space, `01`, `tru`) and bytes that are no UTF-8.
ParsePayloads ==
  { <<>>, <<"5">>, <<"-", "1">>, <<"n", "u", "l", "l">>,
    <<"t", "r", "u", "e">>, <<"\"", "x", "\"">>,
    <<"{", "\"", "t", "\"", ":", "5", "}">>,
    <<"a", "b", "c">>, <<" ">>, <<"0", "1">>, <<"t", "r", "u">>,
    << InvalidByte >>, <<"\"", InvalidByte, "\"">>, <<"5", InvalidByte>> }

\* Strings handed to the base64 decoder: of 0, 1, 2, 3 and 4 bytes, with
\* bits set behind the last byte, too short, unpadded, with a character
\* that is not of the alphabet, with padding before the end.
Base64Texts ==
  { <<>>, <<"Q", "Q", "=", "=">>, <<"Q", "U", "I", "=">>,
    <<"Q", "U", "J", "D">>, <<"Q", "U", "J", "D", "R", "A", "=", "=">>,
    <<"/", "+", "8", "=">>,
    <<"Q", "R", "=", "=">>, <<"Q", "U", "J", "=">>, <<"Q", "Q", "=">>,
    <<"Q", "Q">>, <<"Q">>, <<"Q", "-", "=", "=">>, <<"=", "Q", "Q", "=">>,
    <<"Q", "Q", "=", "=", "Q", "U", "J", "D">>, <<"Q", "=", "=", "=">>,
    <<"Q", "U", "J", "D", "R">> }

\* The payload `{"t":"text"}`.
PayloadWithText(text) ==
  <<"{", "\"", "t", "\"", ":", "\"">> \o text \o <<"\"", "}">>

\* A base64 configuration that reads `$.payload.t` and one that reads
\* `$.payload`, with their target `d`.
Base64Samples ==
  { Base64DecodeConfig(P_payload_t, <<"d">>),
    Base64DecodeConfig(P_payload, <<"d">>) }

\* Calls of parse_message: every topic with every payload and QoS and no
\* base64 configuration; with one, the payloads that carry a string and
\* those that carry none.
InitParse ==
  /\ BridgeIdle
  /\ \/ \E topic \in StringsUpTo({"a", "/"}, MaxTopicLen),
           payload \in ParsePayloads, qos \in {0, 1, 2} :
          probe = Call("parse_message", << None, topic, payload, qos >>)
     \/ \E config \in Base64Samples,
           payload \in { PayloadWithText(text) : text \in Base64Texts }
                       \cup { <<"\"">> \o text \o <<"\"">> :
                                text \in Base64Texts }
                       \cup ParsePayloads :
          probe = Call("parse_message", << Some(config), <<"a">>, payload, 1 >>)

ApplyParseMessage ==
  /\ probe.op = "parse_message"
  /\ probe.out = None
  /\ probe' = Returned(probe, parse_message(probe.arg[1], probe.arg[2],
                                            probe.arg[3], probe.arg[4]))
  /\ UNCHANGED bridge_vars

\* Deliveries handed to process_message: those of the calls of
\* parse_message.
InitProcessMessage ==
  /\ BridgeIdle
  /\ \/ \E topic \in StringsUpTo({"a", "/"}, MaxTopicLen),
           payload \in ParsePayloads, qos \in {0, 1, 2} :
          probe = Call("process_message",
                       << None, MqttMessage(0, topic, payload, qos) >>)
     \/ \E config \in Base64Samples,
           payload \in { PayloadWithText(text) : text \in Base64Texts }
                       \cup ParsePayloads :
          probe = Call("process_message",
                       << Some(config), MqttMessage(0, <<"a">>, payload, 1) >>)

\* process_message up to its loop over the point specs.
ApplyProcessMessage ==
  /\ probe.op = "process_message"
  /\ probe.out = None
  /\ probe' = Returned(probe,
                       process_message_parse(probe.arg[1], probe.arg[2]))
  /\ UNCHANGED bridge_vars

InitMessage == InitValue \/ InitParse \/ InitProcessMessage

NextMessage ==
  \/ ApplyGetValue
  \/ ApplyParseMessage
  \/ ApplyProcessMessage

SpecMessage == InitMessage /\ [][NextMessage]_vars

\* Values handed to convert_type: the JSON values of every type, the words
\* the bool coercion knows in lower and upper case, and other strings.
ConvertValues ==
  { JNull, JBool(TRUE), JBool(FALSE), JInt(0 - 1), JInt(0), JInt(1),
    JInt(42), JFloat(0), JFloat(2), JArray(<<>>), JArray(<< JInt(1) >>),
    JObject(EmptyMap), JString(S_true), JString(S_false),
    JString(<<"T", "r", "u", "e">>), JString(<<"y", "e", "s">>),
    JString(<<"Y", "E", "S">>), JString(<<"o", "f", "f">>),
    JString(<<"O", "F", "F">>), JString(<<"-", "1">>),
    JString(<<"4", "2">>) }
  \cup { JString(s) : s \in StringsUpTo({"o", "n", "O", "N", "0", "1"}, 2) }

\* The coercion tags of a typed field, and a tag that is none of them.
TypeNames ==
  { T_float, T_int, T_str, T_string, T_bool, T_booltoint, <<"x">> }

InitConvert ==
  /\ BridgeIdle
  /\ \E value \in ConvertValues, type_name \in TypeNames :
       probe = Call("convert_type", << value, type_name >>)

ApplyConvertType ==
  /\ probe.op = "convert_type"
  /\ probe.out = None
  /\ probe' = Returned(probe, convert_type(probe.arg[1], probe.arg[2]))
  /\ UNCHANGED bridge_vars

\* Last minute of the cron expressions and of the instants of the calls of
\* schedule_matches_at.
MaxMinute == 2

\* Cron expressions of 4 to 7 fields, well-formed or not, that designate
\* some seconds of some minutes (a 5-field expression has no seconds field:
\* its seconds are those the `0 ` of the normalisation gives it).
CronSamples ==
  { CronExpr(fields, valid, seconds, minutes) :
      fields \in 4..7, valid \in BOOLEAN,
      seconds \in (SUBSET {0, 30, 59}) \ {{}},
      minutes \in SUBSET (0..MaxMinute) }

\* Instants at the start, inside and at the end of each minute.
GateTimes ==
  { 60 * m + sec : m \in 0..MaxMinute, sec \in {0, 1, 30, 59} }

InitSchedule ==
  /\ BridgeIdle
  /\ \E schedule \in CronSamples, time \in GateTimes :
       probe = Call("schedule_matches_at", << schedule, time >>)

ApplyScheduleMatchesAt ==
  /\ probe.op = "schedule_matches_at"
  /\ probe.out = None
  /\ probe' = Returned(probe,
                       schedule_matches_at(probe.arg[1], probe.arg[2]))
  /\ UNCHANGED bridge_vars

InitFilter == InitConvert \/ InitSchedule

NextFilter ==
  \/ ApplyConvertType
  \/ ApplyScheduleMatchesAt

SpecFilter == InitFilter /\ [][NextFilter]_vars

\* The system clock: an instant before the Unix epoch, or the nanoseconds
\* since the epoch in decimal (a Duration holds more than an i64).
SystemTime(before_epoch, nanos) ==
  [before_epoch |-> before_epoch, nanos |-> nanos]

\* SystemTime::duration_since(UNIX_EPOCH)
duration_since_epoch(system_time) ==
  IF system_time.before_epoch THEN Failure ELSE Ok(system_time.nanos)

\* i64::try_from(d.as_nanos())
i64_try_from(nanos) ==
  IF DigitsLE(nanos, I64MaxText) THEN Ok(nanos) ELSE Failure

\* A timestamp that keeps the nanoseconds whatever their number.
timestamp_unsaturated(system_time) ==
  IF system_time.before_epoch THEN <<"0">> ELSE system_time.nanos

\* process_point: the timestamp of the point, in decimal.
timestamp_nanos(system_time) ==
  LET d == duration_since_epoch(system_time)
      Nanos(i) == IF i.ok THEN i.v ELSE I64MaxText
  IN  IF d.ok THEN Nanos(i64_try_from(d.v)) ELSE <<"0">>

\* Clocks: before the epoch, at the epoch, in 2023, at the last nanosecond
\* an i64 holds, one later, at u64::MAX and at 10^20 nanoseconds.
ClockSamples ==
  { SystemTime(TRUE, <<"1">>), SystemTime(TRUE, I64MaxText),
    SystemTime(FALSE, <<"0">>), SystemTime(FALSE, <<"1">>),
    SystemTime(FALSE, <<"1", "7">> \o [i \in 1..17 |-> "0"]),
    SystemTime(FALSE, I64MaxText),
    SystemTime(FALSE, SubSeq(I64MaxText, 1, 18) \o <<"8">>),
    SystemTime(FALSE, U64MaxText),
    SystemTime(FALSE, <<"1">> \o [i \in 1..20 |-> "0"]) }

\* Calls of process_point under every clock.
InitStamp ==
  /\ BridgeIdle
  /\ \E point_config \in PointSamples, payload \in PointPayloads,
        system_time \in ClockSamples :
       probe = Call("process_point_at",
                    << point_config, payload, system_time >>)

\* process_point up to the write_point call, with the clock read at
\* SystemTime::now().
ApplyProcessPointAt ==
  /\ probe.op = "process_point_at"
  /\ probe.out = None
  /\ probe' = Returned(probe,
                       BuildPoint(probe.arg[1], ParsedOf(probe),
                                  timestamp_nanos(probe.arg[3])))
  /\ UNCHANGED bridge_vars

NextStamp == ApplyProcessPointAt

SpecStamp == InitStamp /\ [][NextStamp]_vars

\* Operands of `^`: a number literal, a JSONPath (an identifier once it is
\* rewritten) and a parenthesised subexpression, with their values when
\* `$.payload` is 2.
PowerOperands ==
  { <<"1">>, <<"2">>, <<"3">>, P_payload,
    <<"(", "2", " ", "+", " ", "1", ")">>, <<"(", "1", ")">> }

OperandValue(operand) ==
  CASE operand = <<"1">> -> 1
    [] operand = <<"2">> -> 2
    [] operand = <<"3">> -> 3
    [] operand = P_payload -> 2
    [] operand = <<"(", "2", " ", "+", " ", "1", ")">> -> 3
    [] operand = <<"(", "1", ")">> -> 1

\* Operands of the chains `a ^ b ^ c`: number literals and an identifier,
\* whose values stay small.
ChainOperands == { <<"1">>, <<"2">>, P_payload }

\* The expressions `=a ^ b` and `=a ^ b ^ c`, with the `^` between spaces
\* or not.
PowerText(a, b, caret) == <<"=">> \o a \o caret \o b

ChainText(a, b, c, caret) == <<"=">> \o a \o caret \o b \o caret \o c

Carets == { <<"^">>, <<" ", "^", " ">> }

\* The variables evaluate_expression_spec binds when `$.payload` is 2.
PayloadIsTwo == (jsonpath_to_variable(P_payload) :> 2)

\* Calls of evaluate_expression: the powers and chains of powers, and
\* expressions without `^`.
InitEvaluate ==
  /\ BridgeIdle
  /\ \E expression \in
          { PowerText(a, b, caret) :
              a \in PowerOperands, b \in PowerOperands, caret \in Carets }
          \cup { ChainText(a, b, c, caret) :
                   a \in ChainOperands, b \in ChainOperands,
                   c \in ChainOperands, caret \in Carets }
          \cup { E_sum, E_broken, E_double, <<"=">> } :
       probe = Call("evaluate_expression", << expression, PayloadIsTwo >>)

ApplyEvaluateExpression ==
  /\ probe.op = "evaluate_expression"
  /\ probe.out = None
  /\ probe' = Returned(probe,
                       evaluate_expression(probe.arg[1], probe.arg[2]))
  /\ UNCHANGED bridge_vars

\* Longest expression of the calls of parse_expression, in terms.
MaxTerms == 3

\* Terms of an expression: JSONPaths of which some are proper prefixes of
\* others (`$.t`, `$.t.t`, `$.tt`, `$.payload`, `$.payload.t`), and a
\* number.
ExprTerms ==
  { <<"$", ".", "t">>, <<"$", ".", "t", ".", "t">>, <<"$", ".", "t", "t">>,
    P_payload, P_payload_t, <<"2">> }

RECURSIVE JoinTerms(_, _)
\* The terms with the operator between them.
JoinTerms(terms, operator) ==
  IF Len(terms) = 0 THEN <<>>
  ELSE IF Len(terms) = 1 THEN terms[1]
  ELSE terms[1] \o operator \o JoinTerms(Tail(terms), operator)

InitParseExpression ==
  /\ BridgeIdle
  /\ \E n \in 1..MaxTerms :
       \E terms \in [1..n -> ExprTerms],
          operator \in { <<"+">>, <<" ", "*", " ">> } :
         probe = Call("parse_expression", JoinTerms(terms, operator))

ApplyParseExpression ==
  /\ probe.op = "parse_expression"
  /\ probe.out = None
  /\ probe' = Returned(probe, parse_expression(probe.arg))
  /\ UNCHANGED bridge_vars

\* Longest JSONPath of the calls of jsonpath_to_variable, in segments, and
\* longest segment.
MaxSegments == 2

MaxSegmentLen == 3

\* Segments without array indices: letters and underscores.
PathSegments == StringsUpTo({"a", "_"}, MaxSegmentLen) \ {<<>>}

\* `$.seg1.seg2...`
PathOf(segments) == <<"$", ".">> \o JoinTerms(segments, <<".">>)

\* The JSONPath `$.payload.air_quality`.
P_air_quality ==
  P_payload \o <<".", "a", "i", "r", "_", "q", "u", "a", "l", "i", "t", "y">>

PathSamples ==
  { PathOf(segments) :
      segments \in UNION { [1..n -> PathSegments] : n \in 1..MaxSegments } }
  \cup { P_payload, P_payload_t, P_air_quality }

InitRoundTrip ==
  /\ BridgeIdle
  /\ \E path \in PathSamples : probe = Call("jsonpath_to_variable", path)

\* jsonpath_to_variable, and variable_to_jsonpath on its result.
ApplyRoundTrip ==
  /\ probe.op = "jsonpath_to_variable"
  /\ probe.out = None
  /\ \E variable \in {jsonpath_to_variable(probe.arg)} :
       probe' = Returned(probe, [variable |-> variable,
                                 path |-> variable_to_jsonpath(variable)])
  /\ UNCHANGED bridge_vars

InitExpr == InitEvaluate \/ InitParseExpression \/ InitRoundTrip

NextExpr ==
  \/ ApplyEvaluateExpression
  \/ ApplyParseExpression
  \/ ApplyRoundTrip

SpecExpr == InitExpr /\ [][NextExpr]_vars

\* The JSONPath `$.timestamp` and the expression `=$.timestamp+1`.
P_timestamp == <<"$", ".">> \o K_timestamp

E_timestamp == <<"=">> \o P_timestamp \o <<"+", "1">>

\* Point specifications that read `$.timestamp` as their measurement, in a
\* tag, in a field (plain, coerced to a string, in an expression) and in
\* httpcontent, and one that reads the payload only.
TimestampSamples ==
  { PointConfig(P_timestamp, <<"a">>, None,
                (S_v :> SimpleField(P_payload_t)), EmptyMap, EmptyMap),
    PointConfig(S_m, <<"a">>, None, (S_v :> SimpleField(P_payload_t)),
                (S_k :> P_timestamp), EmptyMap),
    PointConfig(S_m, <<"a">>, None, (S_v :> SimpleField(P_timestamp)),
                EmptyMap, EmptyMap),
    PointConfig(S_m, <<"a">>, None,
                (S_v :> SimpleField(P_payload_t)) @@
                (S_w :> TypedField(P_timestamp, Some(T_str))),
                EmptyMap, EmptyMap),
    PointConfig(S_m, <<"a">>, None, (S_v :> SimpleField(E_timestamp)),
                EmptyMap, EmptyMap),
    PointConfig(S_m, <<"a">>, None, (S_v :> SimpleField(P_payload_t)),
                EmptyMap, (S_k :> P_timestamp)),
    PointConfig(S_m, <<"a">>, None, (S_v :> SimpleField(P_payload_t)),
                (S_k :> P_payload_t), (S_k :> P_payload_t)) }

\* Point specifications of one configuration.
MaxPoints == 2

\* A process_point that stamps the time on the message it was lent.
process_point_stamping_message(point_config, parsed, time) ==
  [parsed |-> [parsed EXCEPT !.timestamp = Some(time)],
   built |-> BuildPoint(point_config, parsed, time),
   content |-> HttpContentOf(point_config, parsed)]

\* process_point with a write_point and a forward_json that return Ok: the
\* point it builds, the content it builds, and the message it borrowed
\* (`parsed: &ParsedMessage`) as it leaves it.
process_point_borrowing(point_config, parsed, time) ==
  [parsed |-> parsed,
   built |-> BuildPoint(point_config, parsed, time),
   content |-> HttpContentOf(point_config, parsed)]

\* Deliveries on the topic `a` for a configuration of MaxPoints point
\* specifications, all of which match the topic.
InitDispatch ==
  /\ BridgeIdle
  /\ \E points \in [1..MaxPoints -> TimestampSamples],
        payload \in Payloads, time \in {7, 60} :
       probe = Call("process_message_loop",
                    << points, MqttMessage(0, <<"a">>, payload, 1), time >>)

\* process_message: the delivery is parsed, once.
ApplyDispatchParse ==
  /\ probe.op = "process_message_loop"
  /\ probe.out = None
  /\ probe' = Returned(probe,
                [parsed |-> process_message_parse(Base64Config,
                                                  probe.arg[2]).parsed.v,
                 outcomes |-> <<>>])
  /\ UNCHANGED bridge_vars

\* process_message: the next point specification of the loop.
ApplyDispatchPoint ==
  /\ probe.op = "process_message_loop"
  /\ probe.out # None
  /\ Len(probe.out.v.outcomes) < Len(probe.arg[1])
  /\ \E after \in
          { process_point_borrowing(
              probe.arg[1][Len(probe.out.v.outcomes) + 1],
              probe.out.v.parsed, probe.arg[3]) } :
       probe' = Returned(probe,
                  [parsed |-> after.parsed,
                   outcomes |-> Append(probe.out.v.outcomes,
                                       [built |-> after.built,
                                        content |-> after.content])])
  /\ UNCHANGED bridge_vars

NextDispatch ==
  \/ ApplyDispatchParse
  \/ ApplyDispatchPoint

SpecDispatch == InitDispatch /\ [][NextDispatch]_vars

(***************************************************************************)
(* The broker task by itself: the events of its loop for configurations    *)
(* whose points share topics, and of the dispatch task the step that       *)
(* drops the receiver                                                      *)
(***************************************************************************)

\* config.points: up to MaxTopicPoints point specifications, which may name
\* the same topic pattern more than once and in any order.  The validation
\* refuses a configuration without points.
PointLists ==
  UNION { [1..n -> { Points[i] : i \in DOMAIN Points }] :
          n \in 1..MaxTopicPoints }

InitBroker ==
  /\ BridgeIdle
  /\ \E points \in PointLists : probe = Call("run_bridge", << points >>)

\* run_bridge with the points of the configuration at hand.
RunBridgeCollects ==
  /\ probe.op = "run_bridge"
  /\ RunBridgeWith(probe.arg[1])

\* eventloop.poll() yields a Publish on the topic `a`.
PublishOne ==
  /\ handler # None
  /\ BrokerPublish(BurstTopic, BurstPayload, 1, MaxMsgs)

NextBroker ==
  \/ RunBridgeCollects
  \/ BrokerConnAck
  \/ BrokerSubscribeReturns
  \/ BrokerPollError
  \/ BrokerBackoffElapses
  \/ PublishOne
  \/ BrokerSend
  \/ BrokerSendFails
  \/ Cancel
  \/ DispatchCancelled
  \/ BridgeSelect

SpecBroker == InitBroker /\ [][NextBroker]_vars

(***************************************************************************)
(* Properties                                                              *)
(***************************************************************************)

\* The trail entries of the calls that have not returned.
InFlight ==
  {k \in 1..Len(trail) :
     trail[k].write = "pending" \/ trail[k].forward = "pending"}

\* C1: write_point calls happen in the order the broker task enqueued the
\* deliveries: the ids in write_order never decrease, and the only call
\* that can be in flight is the one started last, made for the delivery
\* being processed.
C1_WritesInEnqueueOrder ==
  /\ \A i \in 1..(Len(write_order) - 1) : write_order[i] <= write_order[i + 1]
  /\ \A i \in 1..Len(write_order) :
       \E j \in 1..Len(dequeued) : dequeued[j] = write_order[i]
  /\ dispatch_pc = "write" =>
       /\ Len(write_order) > 0
       /\ write_order[Len(write_order)] = cur.id
       /\ cur.id = dequeued[Len(dequeued)]
  /\ dispatch_pc \notin {"write", "forward"} => InFlight = {}

\* Two deliveries were written one after the other, and the second is
\* complete.
C1_Witness ==
  /\ dispatch_pc = "recv"
  /\ \E i \in 1..(Len(write_order) - 1) :
       write_order[i] = 1 /\ write_order[i + 1] = 2

\* C3: when a delivery is complete every point spec has been examined, and
\* every spec that matched, passed its gate and built a point had its
\* write_point call, whatever the earlier calls returned; the dispatch task
\* ends only after a cancellation.
C3_ErrorsDoNotStopLaterSpecs ==
  /\ (dispatch_pc \in {"recv", "done"} /\ cur # None) =>
       /\ Len(trail) = Len(Points)
       /\ \A j \in 1..Len(Points) :
            ReachesWrite(j, cur, trail[j].at) =>
              trail[j].write \in {"ok", "err"}
  /\ dispatch_pc = "done" => cancelled

\* A delivery is complete in which a write_point call failed and a later
\* spec was written.
C3_Witness ==
  /\ dispatch_pc = "recv"
  /\ \E i, j \in 1..Len(trail) :
       /\ i < j
       /\ trail[i].write = "err"
       /\ trail[j].write \in {"ok", "err"}

\* C4: a write_point call is made for a spec only if its topic pattern
\* matches, it has no schedule or its cron gate held when it was examined,
\* its measurement is present and at least one field was extracted.
C4_WriteOnlyIfEligible ==
  \A k \in 1..Len(trail) :
    trail[k].write # "skip" =>
      /\ topic_matches(Points[trail[k].idx].topic, cur.topic)
      /\ \/ Points[trail[k].idx].schedule = None
         \/ schedule_matches_at(Points[trail[k].idx].schedule.v, trail[k].at)
      /\ get_value(Points[trail[k].idx].measurement, Parsed(cur)) # None
      /\ Cardinality(DOMAIN FieldsOf(Points[trail[k].idx], Parsed(cur))) >= 1

\* A delivery is complete in which the scheduled spec was written.
C4_Witness ==
  /\ dispatch_pc = "recv"
  /\ \E k \in 1..Len(trail) :
       trail[k].write # "skip" /\ Points[trail[k].idx].schedule # None

\* C5: the point specs of a delivery are examined in the order of the
\* configuration, and a spec is examined only when the calls of the specs
\* before it have returned: at most one call is in flight, that of the
\* spec examined last.
C5_OneSpecAtATime ==
  /\ \A k \in 1..Len(trail) : trail[k].idx = k
  /\ \A k \in 1..(Len(trail) - 1) :
       /\ trail[k].write \in {"skip", "ok", "err"}
       /\ trail[k].forward \in {"none", "ok", "err"}
       /\ trail[k].at <= trail[k + 1].at
  /\ Cardinality(InFlight) <= 1
  /\ dispatch_pc \in {"write", "forward"} => InFlight = {Len(trail)}

\* The third spec's write_point call is in flight after the calls of the
\* first two have returned.
C5_Witness ==
  /\ dispatch_pc = "write"
  /\ Len(trail) = 3
  /\ trail[1].write \in {"ok", "err"}
  /\ trail[2].write \in {"ok", "err"}

\* Whether the forwarding conditions of spec idx hold for the delivery
\* being processed: a forwarder is configured, the spec's httpcontent is
\* not empty and the content built from it is not empty.
CanForward(idx) ==
  /\ http_forwarder
  /\ DOMAIN Points[idx].httpcontent # {}
  /\ DOMAIN HttpContentOf(Points[idx], Parsed(cur)) # {}

\* C6, as the claim states it: once the write_point call of a spec has
\* returned, with Ok or with an error, forward_json is called exactly when
\* the forwarding conditions hold.
C6_ForwardWhateverTheWrite ==
  \A k \in 1..Len(trail) :
    trail[k].write \in {"ok", "err"} =>
      (trail[k].forward # "none" <=> CanForward(trail[k].idx))

\* C6, amended: once the write_point call of a spec has returned,
\* forward_json is called exactly when the call returned Ok and the
\* forwarding conditions hold; it is called once, and when the delivery is
\* complete every spec has been examined whatever forward_json returned.
C6_ForwardOnlyAfterWrite ==
  /\ \A k \in 1..Len(trail) :
       /\ trail[k].write \in {"ok", "err"} =>
            (trail[k].forward # "none" <=>
               (trail[k].write = "ok" /\ CanForward(trail[k].idx)))
       /\ trail[k].write \in {"skip", "pending"} => trail[k].forward = "none"
  /\ \A j, k \in 1..Len(trail) : trail[j].idx = trail[k].idx => j = k
  /\ (dispatch_pc \in {"recv", "done"} /\ cur # None) =>
       Len(trail) = Len(Points)

\* A delivery is complete in which one spec's write_point failed while its
\* forwarding conditions held, and a later spec was written.
C6_Witness ==
  /\ dispatch_pc = "recv"
  /\ cur # None
  /\ \E j, k \in 1..Len(trail) :
       /\ j < k
       /\ trail[j].write = "err"
       /\ CanForward(trail[j].idx)
       /\ trail[k].write = "ok"

\* The ids of the messages of a channel, in order.
Ids(ch) == [i \in 1..Len(ch) |-> ch[i].id]

\* The ids the broker task has received, in order.
ReceivedIds == [i \in 1..received |-> i]

\* Every delivery received is where it belongs, once and in order: it was
\* dispatched, or it is in the channel, or the broker task is sending it.
Conserved ==
  dequeued \o Ids(channel) \o (IF pending = None THEN <<>> ELSE <<pending.id>>)
    = ReceivedIds

Terminated ==
  /\ main_pc = "exit_ok"
  /\ broker_pc = "none"
  /\ dispatch_pc \in {"none", "done"}

C8_NoDequeueAfterCancel == late = {}

\* C9: when run_bridge returns an error and the token is not cancelled, a
\* daemon enters the retry wait and leaves it for run_bridge only when the
\* 30 s have passed; without daemon mode main exits with the error and
\* run_bridge is called once only.
C9_RestartOnlyAsDaemon ==
  [][/\ (main_pc = "run_bridge" /\ main_pc' \notin {"run_bridge", "running"}
         /\ ~cancelled) =>
           /\ daemon => (main_pc' = "retry_wait" /\ ~sleep_elapsed')
           /\ ~daemon => main_pc' = "exit_err"
     /\ (main_pc = "retry_wait" /\ main_pc' = "run_bridge") =>
           (daemon /\ sleep_elapsed /\ bridge_runs' = bridge_runs)
     /\ ~daemon => bridge_runs' <= 1
     /\ main_pc = "exit_err" => main_pc' = "exit_err"
    ]_vars

\* A daemon's bridge runs after as many failures as the model follows,
\* with no cancellation.
C9_Witness ==
  /\ daemon
  /\ ~cancelled
  /\ bridge_runs = MaxRestarts + 1
  /\ main_pc = "running"

\* C10, as the claim states it: a cancellation that finds main in the retry
\* wait makes main leave the wait for its exit.
C10_CancelEndsWait ==
  [][(main_pc = "retry_wait" /\ cancelled) =>
       main_pc' \in {"retry_wait", "exit_ok"}]_vars

\* C10, amended: a cancellation that finds main in the retry wait makes
\* main leave the wait for its exit, or, only when the 30 s have passed as
\* well, for one more call of run_bridge; after a cancellation main never
\* enters the retry wait, and never exits with an error.
C10_CancelEndsWaitOrRaces ==
  [][/\ (main_pc = "retry_wait" /\ cancelled) =>
          \/ main_pc' \in {"retry_wait", "exit_ok"}
          \/ sleep_elapsed /\ main_pc' = "run_bridge"
     /\ (cancelled /\ main_pc # "retry_wait") => main_pc' # "retry_wait"
     /\ (cancelled /\ main_pc # "exit_err") => main_pc' # "exit_err"
    ]_vars

\* Main has called run_bridge again although the token was cancelled
\* during the retry wait.
C10_Witness ==
  /\ cancelled
  /\ daemon
  /\ main_pc = "run_bridge"
  /\ bridge_runs > 0

\* C11: a connection or protocol error of the broker event stream ends the
\* broker task, which does not poll the stream again, and, met while the
\* bridge runs as a daemon and no shutdown is signalled, leads main to the
\* 30 s retry wait that precedes the restart of the bridge.
C11_PollErrorRestartsBridge ==
  /\ [][broker_pc = "backoff" => broker_pc' # "poll"]_vars
  /\ (broker_pc = "backoff" /\ daemon /\ ~cancelled)
       ~> (cancelled \/ main_pc = "retry_wait")

\* Whether `#` occurs in the pattern only as its last segment.
HashOnlyLast(pattern_parts) ==
  \A i \in 1..(Len(pattern_parts) - 1) : pattern_parts[i] # <<"#">>

\* Whether the first k segments of the pattern accept those of the topic.
PrefixAccepts(pattern_parts, topic_parts, k) ==
  /\ Len(topic_parts) >= k
  /\ \A i \in 1..k :
       pattern_parts[i] = <<"+">> \/ pattern_parts[i] = topic_parts[i]

\* The topics a pattern accepts, segment by segment.
Accepts(pattern_parts, topic_parts) ==
  IF pattern_parts[Len(pattern_parts)] = <<"#">>
  THEN PrefixAccepts(pattern_parts, topic_parts, Len(pattern_parts) - 1)
  ELSE /\ Len(topic_parts) = Len(pattern_parts)
       /\ PrefixAccepts(pattern_parts, topic_parts, Len(pattern_parts))

\* C12: for a pattern whose `#` is only its last segment, topic_matches is
\* true exactly when the literal segments are equal position by position,
\* each `+` meets one topic segment and either the numbers of segments are
\* equal or the pattern ends with `#` at position k and the topic has at
\* least k segments.
C12_TopicMatchesBySegments ==
  (probe.op = "topic_matches" /\ probe.out # None
     /\ HashOnlyLast(Split(probe.arg[1], "/")))
  => (probe.out.v <=> Accepts(Split(probe.arg[1], "/"),
                              Split(probe.arg[2], "/")))

\* `a/#` has matched `a`: the `#` took no segment.
C12_Witness ==
  /\ probe.op = "topic_matches"
  /\ probe.arg = << <<"a", "/", "#">>, <<"a">> >>
  /\ probe.out = Some(TRUE)

\* Whether the strings of a sequence are in strictly ascending order.
Ascending(keys) ==
  \A i, j \in 1..Len(keys) : i < j => StrLess(keys[i], keys[j])

\* The keys of the `key=value` entries of a comma-separated segment.
KeysOfEntries(entries) ==
  [i \in 1..Len(entries) |-> Split(entries[i], "=")[1]]

\* The tag keys and the field keys of a line whose names hold no separator,
\* in the order of the line.
TagKeysOfLine(line) ==
  KeysOfEntries(Tail(Split(Split(line, " ")[1], ",")))

FieldKeysOfLine(line) == KeysOfEntries(Split(Split(line, " ")[2], ","))

\* C13: whatever the order in which the two maps of a point yield their
\* entries, to_line_protocol renders the same line, with the tags in
\* ascending order of key and all the fields in ascending order of key.
C13_LineSortedByKey ==
  (probe.op = "to_line_protocol" /\ probe.out # None)
  => /\ \A tags_iter \in IterOrders(probe.arg[1].tags),
           fields_iter \in IterOrders(probe.arg[1].fields) :
          to_line_protocol(probe.arg[1], tags_iter, fields_iter)
            = probe.out.v
     /\ probe.arg[1] \in OrderingPoints
          => /\ Ascending(TagKeysOfLine(probe.out.v))
             /\ Ascending(FieldKeysOfLine(probe.out.v))
             /\ Len(FieldKeysOfLine(probe.out.v))
                  = Cardinality(DOMAIN probe.arg[1].fields)

\* A point whose maps yielded b, a, B and v, V has been rendered.
C13_Witness ==
  /\ probe.op = "to_line_protocol"
  /\ probe.arg[2] = << <<"b">>, <<"a">>, <<"B">> >>
  /\ probe.arg[3] = << <<"v">>, <<"V">> >>
  /\ \A key \in LineTagKeys : probe.arg[1].tags[key] = <<"x">>
  /\ probe.arg[1].timestamp = Some(7)
  /\ probe.out
       = Some(<<"m", ",", "B", "=", "x", ",", "a", "=", "x", ",", "b", "=",
                "x", " ", "V", "=", "1", "i", ",", "v", "=", "1", "i", " ",
                "7">>)

\* s with a backslash put before each backslash and each double quote.
RECURSIVE QuoteEscaped(_)
QuoteEscaped(s) ==
  IF Len(s) = 0 THEN <<>>
  ELSE (IF s[1] \in {"\\", "\""} THEN <<"\\", s[1]>> ELSE <<s[1]>>)
       \o QuoteEscaped(Tail(s))

\* The variant and the text the claim gives to a JSON value, or None for
\* the values that make no field.
FieldByType(value) ==
  CASE value.type = "int" ->
         [variant |-> "Int", text |-> i64_to_string(value.n) \o <<"i">>]
    [] value.type = "posint" ->
         IF DigitsLE(value.digits, I64MaxText)
         THEN [variant |-> "Int", text |-> value.digits \o <<"i">>]
         ELSE [variant |-> "UInt", text |-> value.digits \o <<"u">>]
    [] value.type = "float" ->
         [variant |-> "Float", text |-> i64_to_string(value.f) \o <<".", "0">>]
    [] value.type = "string" ->
         [variant |-> "String",
          text |-> <<"\"">> \o QuoteEscaped(value.s) \o <<"\"">>]
    [] value.type = "bool" ->
         [variant |-> "Bool", text |-> IF value.b THEN S_true ELSE S_false]
    [] OTHER -> None

\* C16: the JSON value decides the field: an integer within i64 is an Int
\* rendered with suffix i, a larger non-negative integer a UInt with suffix
\* u, another number a Float, a string a quoted String with backslash and
\* quote escaped, a bool true or false; null, arrays and objects make no
\* field.
C16_FieldTypeByJsonValue ==
  (probe.op = "field_from_json" /\ probe.out # None)
  => IF FieldByType(probe.arg[1]) = None
     THEN /\ DOMAIN probe.out.v.point.fields = {}
          /\ probe.out.v.line = <<"m", " ">>
     ELSE /\ DOMAIN probe.out.v.point.fields = { <<"v">> }
          /\ probe.out.v.point.fields[<<"v">>].variant
               = FieldByType(probe.arg[1]).variant
          /\ probe.out.v.line
               = <<"m", " ", "v", "=">> \o FieldByType(probe.arg[1]).text

\* u64::MAX has become a UInt field and i64::MAX an Int field.
C16_Witness ==
  /\ probe.op = "field_from_json"
  /\ probe.arg[1] = JPosInt(U64MaxText)
  /\ probe.out # None
  /\ probe.out.v.point.fields[<<"v">>].variant = "UInt"
  /\ probe.out.v.line = <<"m", " ", "v", "=">> \o U64MaxText \o <<"u">>

\* The separators of a line.
Separators == {",", "=", " "}

\* A line split on its unescaped separators, from character i on: a
\* backslash before a separator makes it part of the name; name is the
\* one being read.
RECURSIVE SplitUnescaped(_, _, _)
SplitUnescaped(line, i, name) ==
  IF i > Len(line) THEN << name >>
  ELSE IF line[i] = "\\" /\ i < Len(line) /\ line[i + 1] \in Separators
  THEN SplitUnescaped(line, i + 2, Append(name, line[i + 1]))
  ELSE IF line[i] \in Separators
  THEN << name >> \o SplitUnescaped(line, i + 1, <<>>)
  ELSE SplitUnescaped(line, i + 1, Append(name, line[i]))

\* The names of a point of one field and at most one tag, in the order of
\* its line.
NamesOfPoint(point) ==
  << point.measurement >>
  \o (IF DOMAIN point.tags = {} THEN <<>>
      ELSE LET key == CHOOSE k \in DOMAIN point.tags : TRUE
           IN  << key, point.tags[key] >>)
  \o << CHOOSE k \in DOMAIN point.fields : TRUE, <<"1", "i">> >>

\* C15: the escaping of measurement, tag key, tag value and field key is
\* separator-safe, backslashes included: the rendered line, split on its
\* unescaped separators, gives back the names of the point in their places.
C15_EscapingSeparatorSafe ==
  (probe.op = "to_line_protocol" /\ probe.out # None
     /\ probe.arg[1] \in EscapingPoints)
  => SplitUnescaped(probe.out.v, 1, <<>>) = NamesOfPoint(probe.arg[1])

\* The `key=value` entries of the tag segment of a line whose names hold
\* no separator.
TagEntriesOfLine(line) == Tail(Split(Split(line, " ")[1], ","))

\* Whether the tags of a line are those of keys, each with a value.
TagsOfLineAre(line, keys) ==
  /\ { TagKeysOfLine(line)[i] : i \in 1..Len(TagKeysOfLine(line)) } = keys
  /\ Len(TagKeysOfLine(line)) = Cardinality(keys)
  /\ \A i \in 1..Len(TagEntriesOfLine(line)) :
       /\ Len(Split(TagEntriesOfLine(line)[i], "=")) = 2
       /\ Split(TagEntriesOfLine(line)[i], "=")[2] # <<>>

\* The tags of a point specification whose value, on a message, is present
\* and is not the empty string.
TagsWithText(point_config, parsed) ==
  { k \in DOMAIN point_config.tags :
      /\ get_value(point_config.tags[k], parsed) # None
      /\ ValueText(get_value(point_config.tags[k], parsed)) # <<>> }

\* C14: no line holds a tag of empty value.  to_line_protocol renders the
\* tags of non-empty value and no other; process_point adds to the point the
\* tags whose value is present and not the empty string, and no other.
C14_NoEmptyTag ==
  /\ (probe.op = "to_line_protocol" /\ probe.out # None
        /\ probe.arg[1] \in OrderingPoints)
     => TagsOfLineAre(probe.out.v,
                      { k \in DOMAIN probe.arg[1].tags :
                          probe.arg[1].tags[k] # <<>> })
  /\ (probe.op = "process_point" /\ probe.out # None
        /\ probe.out.v.built.ok)
     => /\ DOMAIN probe.out.v.built.v.tags
             = TagsWithText(probe.arg[1], ParsedOf(probe))
        /\ \A k \in DOMAIN probe.out.v.built.v.tags :
             probe.out.v.built.v.tags[k] # <<>>
        /\ TagsOfLineAre(probe.out.v.line.v,
                         DOMAIN probe.out.v.built.v.tags)

\* A point with the tag a of empty value and the tag b of value x has been
\* rendered with the tag b alone.
C14_Witness ==
  /\ probe.op = "to_line_protocol"
  /\ probe.arg[1].tags = (<<"a">> :> <<>>) @@ (<<"b">> :> <<"x">>)
  /\ probe.arg[1].fields = (<<"v">> :> IntOne)
  /\ probe.arg[1].timestamp = None
  /\ probe.out = Some(<<"m", ",", "b", "=", "x", " ", "v", "=", "1", "i">>)

\* The fields of a point specification that, on a message, extract_field
\* yields and from_json makes a field of.
FieldsWithValue(point_config, parsed) ==
  { f \in DOMAIN point_config.fields :
      /\ extract_field(point_config.fields[f], parsed) # None
      /\ FieldValue_from_json(extract_field(point_config.fields[f], parsed))
           # None }

\* C17: a field whose evaluation yields absent is not added to the point
\* and does not count; the other fields of the point are added all the
\* same; the point is given up only when its measurement is absent or none
\* of its fields was added.
C17_AbsentFieldOnlySkipsItself ==
  (probe.op = "process_point" /\ probe.out # None)
  => /\ probe.out.v.built.ok
          <=> /\ get_value(probe.arg[1].measurement, ParsedOf(probe)) # None
              /\ FieldsWithValue(probe.arg[1], ParsedOf(probe)) # {}
     /\ probe.out.v.built.ok
          => /\ DOMAIN probe.out.v.built.v.fields
                  = FieldsWithValue(probe.arg[1], ParsedOf(probe))
             /\ \A f \in DOMAIN probe.out.v.built.v.fields :
                  /\ extract_field(probe.arg[1].fields[f], ParsedOf(probe))
                       # None
                  /\ probe.out.v.built.v.fields[f]
                       = FieldValue_from_json(
                           extract_field(probe.arg[1].fields[f],
                                         ParsedOf(probe)))

\* On the payload `{"t":5}` the field w, an expression over a variable that
\* is not bound, is absent and the field v, `$.payload.t`, is written alone.
C17_Witness ==
  /\ probe.op = "process_point"
  /\ probe.arg[1].fields
       = (S_v :> SimpleField(P_payload_t)) @@ (S_w :> SimpleField(E_unbound))
  /\ probe.arg[2] = <<"{", "\"", "t", "\"", ":", "5", "}">>
  /\ extract_field(SimpleField(E_unbound), ParsedOf(probe)) = None
  /\ probe.out # None
  /\ probe.out.v.built.ok
  /\ DOMAIN probe.out.v.built.v.fields = {S_v}
  /\ probe.out.v.line
       = Some(<<"m", " ", "v", "=", "5", "i", " ", "7">>)

\* The object a value-spec of a call of get_value is evaluated on.
MessageObjectOf(call) == build_message_object(ParsedOf(call))

\* C18: get_value takes one mode for every value-spec: the empty string is
\* absent; a string that begins with `=` is an expression, with or without
\* a `$.`; another string that holds `$.` is a JSONPath and gives its first
\* match or absent; any other string comes back as a JSON string.
C18_OneModePerSpec ==
  (probe.op = "get_value" /\ probe.out # None)
  => probe.out.v
       = IF probe.arg[1] = <<>> THEN None
         ELSE IF StartsWith(probe.arg[1], <<"=">>)
         THEN evaluate_expression_spec(probe.arg[1], MessageObjectOf(probe))
         ELSE IF Contains(probe.arg[1], <<"$", ".">>)
         THEN extract_jsonpath(probe.arg[1], MessageObjectOf(probe))
         ELSE JString(probe.arg[1])

\* `=$.payload.t*2` has been evaluated as an expression on `{"t":5}`.
C18_Witness ==
  /\ probe.op = "get_value"
  /\ probe.arg = << E_t_double, <<"{", "\"", "t", "\"", ":", "5", "}">> >>
  /\ probe.out = Some(JFloat(10))

\* The segments of a topic joined again with `/`.
RECURSIVE JoinTopic(_)
JoinTopic(parts) ==
  IF Len(parts) = 1 THEN parts[1]
  ELSE parts[1] \o <<"/">> \o JoinTopic(Tail(parts))

\* C19: parse_message gives the payload null for no bytes, the JSON value
\* for bytes whose lossy text is JSON and a string of the lossy text
\* otherwise; the topic is the broker's, split on `/`; the QoS is the
\* delivery's and the timestamp is unset.
C19_PayloadDecodingPolicy ==
  (probe.op = "parse_message" /\ probe.out # None)
  => /\ probe.out.v.v.payload
          = IF probe.arg[3] = <<>> THEN JNull
            ELSE IF json_from_str(from_utf8_lossy(probe.arg[3])) # None
            THEN json_from_str(from_utf8_lossy(probe.arg[3]))
            ELSE JString(from_utf8_lossy(probe.arg[3]))
     /\ Len(probe.out.v.v.topic) >= 1
     /\ JoinTopic(probe.out.v.v.topic) = probe.arg[2]
     /\ \A i \in 1..Len(probe.out.v.v.topic) :
          \A j \in 1..Len(probe.out.v.v.topic[i]) :
            probe.out.v.v.topic[i][j] # "/"
     /\ probe.out.v.v.qos = probe.arg[4]
     /\ probe.out.v.v.timestamp = None

\* The bytes `5` and a byte that is no UTF-8, on the topic `a/a` with QoS 2,
\* have become the string of `5` and U+FFFD.
C19_Witness ==
  /\ probe.op = "parse_message"
  /\ probe.arg = << None, <<"a", "/", "a">>, <<"5", InvalidByte>>, 2 >>
  /\ probe.out
       = Some(Ok(ParsedMessage(<< <<"a">>, <<"a">> >>,
                               JString(<<"5", ReplacementChar>>), None, 2,
                               None)))

\* The number of `=` at the end of a string.
RECURSIVE PadLen(_)
PadLen(s) ==
  IF Len(s) > 0 /\ s[Len(s)] = "="
  THEN 1 + PadLen(SubSeq(s, 1, Len(s) - 1)) ELSE 0

\* Whether s is standard base64: groups of four characters of the alphabet,
\* the last one padded with at most two `=`, no bit set behind the last
\* byte.
IsStandardBase64(s) ==
  /\ Len(s) % 4 = 0
  /\ PadLen(s) <= 2
  /\ \A i \in 1..(Len(s) - PadLen(s)) : IsBase64Char(s[i])
  /\ PadLen(s) = 1 => (Base64Index(s[Len(s) - 1]) - 1) % 4 = 0
  /\ PadLen(s) = 2 => (Base64Index(s[Len(s) - 2]) - 1) % 16 = 0

\* The standard base64 text of a sequence of bytes.
RECURSIVE Base64Text(_)
Base64Text(bytes) ==
  LET Char(n) == Base64Alphabet[n + 1]
  IN  IF Len(bytes) = 0 THEN <<>>
      ELSE IF Len(bytes) = 1
      THEN << Char(bytes[1] \div 4), Char((bytes[1] % 4) * 16), "=", "=" >>
      ELSE IF Len(bytes) = 2
      THEN << Char(bytes[1] \div 4),
              Char((bytes[1] % 4) * 16 + bytes[2] \div 16),
              Char((bytes[2] % 16) * 4), "=" >>
      ELSE << Char(bytes[1] \div 4),
              Char((bytes[1] % 4) * 16 + bytes[2] \div 16),
              Char((bytes[2] % 16) * 4 + bytes[3] \div 64),
              Char(bytes[3] % 64) >>
           \o Base64Text(SubSeq(bytes, 4, Len(bytes)))

\* Whether hex is the lowercase hexadecimal text of bytes.
IsLowerHexOf(hex, bytes) ==
  /\ Len(hex) = 2 * Len(bytes)
  /\ \A i \in 1..Len(bytes) :
       \E hi, lo \in 0..15 :
         /\ hex[2 * i - 1] = HexDigits[hi + 1]
         /\ hex[2 * i] = HexDigits[lo + 1]
         /\ 16 * hi + lo = bytes[i]

\* What the source of the base64 configuration of a call resolves to.
Base64SourceOf(call) ==
  extract_jsonpath(call.arg[1].v.source,
                   build_message_object(
                     [call.out.v.v EXCEPT !.base64decoded = None]))

\* C20: base64decoded is set exactly when a base64 configuration is
\* present, its source resolves to a JSON string and the string is standard
\* base64; it then has one entry, under the target, with the decoded bytes
\* and their lowercase hex.  Otherwise it is unset and the message is parsed
\* all the same.
C20_Base64SetIffDecoded ==
  (probe.op = "parse_message" /\ probe.out # None)
  => /\ probe.out.v.v.base64decoded # None
          <=> /\ probe.arg[1] # None
              /\ Base64SourceOf(probe) # None
              /\ Base64SourceOf(probe).type = "string"
              /\ IsStandardBase64(Base64SourceOf(probe).s)
     /\ probe.out.v.v.base64decoded # None
          => /\ DOMAIN probe.out.v.v.base64decoded.v
                  = { probe.arg[1].v.target }
             /\ \A t \in DOMAIN probe.out.v.v.base64decoded.v :
                  /\ Base64Text(probe.out.v.v.base64decoded.v[t].raw)
                       = Base64SourceOf(probe).s
                  /\ IsLowerHexOf(probe.out.v.v.base64decoded.v[t].hex,
                                  probe.out.v.v.base64decoded.v[t].raw)
     /\ probe.out.v.v.payload
          = parse_message(None, probe.arg[2], probe.arg[3],
                          probe.arg[4]).v.payload

\* `{"t":"/+8="}` has been decoded to the bytes 255, 239 under the target d.
C20_Witness ==
  /\ probe.op = "parse_message"
  /\ probe.arg[1] = Some(Base64DecodeConfig(P_payload_t, <<"d">>))
  /\ probe.arg[3] = PayloadWithText(<<"/", "+", "8", "=">>)
  /\ probe.out # None
  /\ probe.out.v.v.base64decoded
       = Some((<<"d">> :> [raw |-> <<255, 239>>,
                           hex |-> <<"f", "f", "e", "f">>]))

\* The `bool` coercion of a value followed by true to 1, false to 0.
BoolThenInt(value) ==
  LET b == convert_type(value, T_bool)
  IN  IF b = None THEN None ELSE JInt(IF b.b THEN 1 ELSE 0)

\* C21: for every JSON value the `booltoint` coercion is the `bool`
\* coercion followed by true to 1 and false to 0: absent exactly when the
\* `bool` coercion is absent, JSON numbers included.
C21_BooltointIsBoolThenInt ==
  (probe.op = "convert_type" /\ probe.out # None
   /\ probe.arg[2] = T_booltoint)
    => probe.out.v = BoolThenInt(probe.arg[1])

\* The instants a cron expression designates, read as the claim reads it: a
\* 5-field expression is the 6-field expression with second 0.
DesignatedInstants(expr) ==
  { 60 * m + sec : m \in expr.minutes,
                   sec \in IF expr.fields = 5 THEN {0} ELSE expr.seconds }

IsValidCron(expr) == expr.valid /\ expr.fields \in {5, 6, 7}

\* C22: schedule_matches_at(expr, t) is true exactly when expr is a valid
\* cron expression and one of the instants it designates lies in
\* [start of t's minute, start of t's minute + 60 s); for an invalid
\* expression it is false.
C22_GateIsMinuteWindow ==
  (probe.op = "schedule_matches_at" /\ probe.out # None)
    => LET expr == probe.arg[1]
           minute_start == 60 * (probe.arg[2] \div 60)
       IN  probe.out.v
             = (/\ IsValidCron(expr)
                /\ \E t \in DesignatedInstants(expr) :
                     minute_start <= t /\ t < minute_start + 60)

\* A 5-field expression that designates minute 1 only, asked at second 30
\* of minute 1; and an invalid expression, answered with false.
C22_Witness ==
  /\ probe.op = "schedule_matches_at"
  /\ probe.arg[1].fields = 5
  /\ probe.arg[1].valid
  /\ probe.arg[1].minutes = {1}
  /\ probe.arg[2] = 90
  /\ probe.out = Some(TRUE)

\* C23: every point process_point hands to write_point carries a timestamp
\* between 0 and i64::MAX nanoseconds: the time since the Unix epoch,
\* i64::MAX when the nanoseconds do not fit an i64, 0 when the clock is
\* before the epoch.
C23_TimestampSaturates ==
  (probe.op = "process_point_at" /\ probe.out # None /\ probe.out.v.ok)
    => LET point == probe.out.v.v
           system_time == probe.arg[3]
       IN  /\ point.timestamp # None
           /\ DigitsLE(<<"0">>, point.timestamp.v)
           /\ DigitsLE(point.timestamp.v, I64MaxText)
           /\ system_time.before_epoch => point.timestamp.v = <<"0">>
           /\ (~system_time.before_epoch
               /\ DigitsLE(system_time.nanos, I64MaxText))
                => point.timestamp.v = system_time.nanos
           /\ (~system_time.before_epoch
               /\ ~DigitsLE(system_time.nanos, I64MaxText))
                => point.timestamp.v = I64MaxText

\* A point written when the clock is one nanosecond past what an i64
\* holds.
C23_Witness ==
  /\ probe.op = "process_point_at"
  /\ probe.out # None
  /\ probe.out.v.ok
  /\ probe.arg[3] = SystemTime(FALSE, SubSeq(I64MaxText, 1, 18) \o <<"8">>)
  /\ probe.out.v.v.timestamp = Some(I64MaxText)

\* C24: `^` binds to the right and takes identifiers, number literals and
\* parenthesised subexpressions as operands: `a ^ b ^ c` evaluates to a
\* raised to (b raised to c), `a ^ b` to a raised to b (`(2 + 1) ^ 2` to 9),
\* and the rewritten expression is always one the evaluator accepts.
C24_PowerBindsRight ==
  (probe.op = "evaluate_expression" /\ probe.out # None)
    => /\ \A a \in PowerOperands, b \in PowerOperands, caret \in Carets :
            probe.arg[1] = PowerText(a, b, caret)
              => probe.out.v = Ok(Power(OperandValue(a), OperandValue(b)))
       /\ \A a \in ChainOperands, b \in ChainOperands, c \in ChainOperands,
             caret \in Carets :
            probe.arg[1] = ChainText(a, b, c, caret)
              => probe.out.v
                   = Ok(Power(OperandValue(a),
                              Power(OperandValue(b), OperandValue(c))))

RECURSIVE PathsToVariables(_, _)
\* The text from position i on with every JSONPath, read greedily from the
\* left, replaced by its own variable.
PathsToVariables(s, i) ==
  IF i > Len(s) THEN <<>>
  ELSE IF s[i] = "$" /\ i + 2 <= Len(s) /\ s[i + 1] = "."
          /\ s[i + 2] \in PathChars
  THEN jsonpath_to_variable(Slice(s, i, RunEnd(s, i + 2, PathChars)))
       \o PathsToVariables(s, RunEnd(s, i + 2, PathChars) + 1)
  ELSE <<s[i]>> \o PathsToVariables(s, i + 1)

\* C25: parse_expression replaces the longer JSONPaths first, so that in an
\* expression with two paths of which one is a proper prefix of the other,
\* every occurrence of a path is replaced by the variable of that very path
\* and no `$.` is left.
C25_LongestPathFirst ==
  (probe.op = "parse_expression" /\ probe.out # None)
    => /\ probe.out.v.result = PathsToVariables(probe.arg, 1)
       /\ ~Contains(probe.out.v.result, <<"$", ".">>)
       /\ \A i \in 1..Len(probe.out.v.result) : probe.out.v.result[i] # "$"

\* `$.payload + $.payload.t`-like input: the shorter path first, then the
\* path it is a prefix of.
C25_Witness ==
  /\ probe.op = "parse_expression"
  /\ probe.arg = P_payload \o <<"+">> \o P_payload_t \o <<"+">> \o P_payload
  /\ probe.out # None
  /\ probe.out.v.result
       = jsonpath_to_variable(P_payload) \o <<"+">>
         \o jsonpath_to_variable(P_payload_t) \o <<"+">>
         \o jsonpath_to_variable(P_payload)

\* C26: for every JSONPath `$.seg1.seg2...` without array indices,
\* variable_to_jsonpath gives back the path jsonpath_to_variable was given,
\* segments with underscores included, and two different paths never have
\* the same variable.
C26_VariableRoundTrip ==
  (probe.op = "jsonpath_to_variable" /\ probe.out # None)
    => /\ probe.out.v.path = probe.arg
       /\ \A other \in PathSamples :
            jsonpath_to_variable(other) = probe.out.v.variable
              => other = probe.arg

\* C27: parse_message returns Ok for every topic, payload and QoS, with a
\* base64 configuration or without, so process_message never drops a
\* delivery before its loop over the point specifications.
C27_ParseNeverFails ==
  /\ (probe.op = "parse_message" /\ probe.out # None) => probe.out.v.ok
  /\ (probe.op = "process_message" /\ probe.out # None)
       => /\ ~probe.out.v.dropped
          /\ probe.out.v.parsed
               = Some(parse_message(probe.arg[1], probe.arg[2].topic,
                                    probe.arg[2].payload,
                                    probe.arg[2].qos).v)

\* A delivery whose payload is no UTF-8 and no base64, with a base64
\* configuration, has reached the loop.
C27_Witness ==
  /\ probe.op = "process_message"
  /\ probe.arg[1] # None
  /\ probe.arg[2].payload = <<"\"", InvalidByte, "\"">>
  /\ probe.out # None
  /\ ~probe.out.v.dropped

\* What process_point builds from a point specification and the message of
\* a delivery as parse_message returned it, whatever was processed before.
OutcomeAlone(point_config, msg, time) ==
  LET Alone(parsed) ==
        [built |-> BuildPoint(point_config, parsed, time),
         content |-> HttpContentOf(point_config, parsed)]
  IN  Alone(parse_message(Base64Config, msg.topic, msg.payload, msg.qos).v)

\* C28: the parsed message of a delivery stays what parse_message returned
\* through all its point specifications; its timestamp stays unset, so
\* `$.timestamp` is JSON null in every value-spec; and what a point
\* specification extracts does not depend on the specifications before it.
C28_ParsedMessageUntouched ==
  (probe.op = "process_message_loop" /\ probe.out # None)
    => /\ probe.out.v.parsed
            = parse_message(Base64Config, probe.arg[2].topic,
                            probe.arg[2].payload, probe.arg[2].qos).v
       /\ probe.out.v.parsed.timestamp = None
       /\ get_value(P_timestamp, probe.out.v.parsed) = JNull
       /\ \A k \in 1..Len(probe.out.v.outcomes) :
            probe.out.v.outcomes[k]
              = OutcomeAlone(probe.arg[1][k], probe.arg[2], probe.arg[3])

\* Two point specifications done: the first has written a point whose tag
\* is the text of `$.timestamp`, the second has the measurement `null`.
C28_Witness ==
  /\ probe.op = "process_message_loop"
  /\ probe.out # None
  /\ Len(probe.out.v.outcomes) = 2
  /\ probe.out.v.outcomes[1].built.ok
  /\ probe.out.v.outcomes[1].built.v.tags = (S_k :> S_null)
  /\ probe.out.v.outcomes[2].built.ok
  /\ probe.out.v.outcomes[2].built.v.measurement = S_null

\* Whether the trail entries tell that delivery msg was processed to the end: every
\* point spec was examined, every spec that reaches its write_point call
\* had it return, and so had every forward_json call that follows an Ok.
ProcessedToTheEnd(entries, msg) ==
  /\ Len(entries) = Len(Points)
  /\ \A j \in 1..Len(entries) :
       /\ entries[j].idx = j
       /\ << j, msg.topic, msg.payload, msg.qos, entries[j].at >>
            \in memo.reaches
            => entries[j].write \in {"ok", "err"}
       /\ (entries[j].write = "ok"
           /\ << j, msg.topic, msg.payload, msg.qos >> \in memo.forwards)
            => entries[j].forward \in {"ok", "err"}

\* A step from the midst of a delivery: the task stays with the delivery,
\* does not end, keeps what it has done, and is back at its select! only
\* with the delivery processed to the end.
StaysWithDelivery ==
  dispatch_pc \in {"write", "forward"}
    => /\ cur' = cur
       /\ dispatch_pc' # "done"
       /\ Len(trail') >= Len(trail)
       /\ \A j \in 1..(Len(trail) - 1) : trail'[j] = trail[j]
       /\ dispatch_pc' = "recv" => ProcessedToTheEnd(trail', cur')

\* C29: the dispatch task looks at the cancellation only between
\* deliveries.  While a delivery is being processed, cancelled or not, the
\* task goes on with that delivery and does not end; when it is back at its
\* select! the delivery has been processed to the end, with the write_point
\* and forward_json calls of all its remaining specs; and run_bridge has
\* not returned as long as the processing lasts.
C29_CancelOnlyBetweenDeliveries ==
  /\ [](dispatch_pc \in {"write", "forward"}
          => main_pc \in {"running", "join"})
  /\ [][StaysWithDelivery]_vars

\* The token is cancelled and main waits for the dispatch task, which is at
\* the write_point call of the last point spec of a delivery it took before
\* the cancellation, after the write of the first spec.
C29_Witness ==
  /\ cancelled
  /\ main_pc = "join"
  /\ dispatch_pc = "write"
  /\ cur.id \notin late
  /\ Len(trail) = Len(Points)
  /\ trail[1].write = "ok"


\* The topic patterns of the configuration whose handler runs.
ConfiguredPatterns == { probe.arg[1][i].topic : i \in DOMAIN probe.arg[1] }

\* The subscribe calls of the latest successful ConnAck.
Asked == handler.v.asked

AskedPatterns == { Asked[i] : i \in DOMAIN Asked }

\* The calls come in ascending order, no pattern twice.
AskedAscending ==
  \A i, j \in DOMAIN Asked : i < j => StrLess(Asked[i], Asked[j])

\* run has handled at least one successful ConnAck to its end and is at an
\* event of its loop, or has returned.
ConnAckHandled ==
  /\ handler # None
  /\ handler.v.accepted > 0
  /\ broker_pc \in {"poll", "send", "backoff", "returned"}

\* run leaves its loop only from a send that failed because the receiver
\* is dropped.
LoopEndsOnDroppedReceiver ==
  broker_pc # "returned" /\ broker_pc' = "returned"
    => broker_pc = "send" /\ ~ReceiverAlive

\* C30 as stated: once a successful ConnAck is handled, exactly the distinct
\* topic patterns of the point specifications have been asked for, each
\* once and in ascending order, at the first connection and at every
\* reconnection; and the event loop ends only at a send whose receiver is
\* dropped, so neither a failed subscribe nor a refused ConnAck nor a poll
\* error ends it.
C30_SubscribesAllPatterns ==
  /\ [](ConnAckHandled => AskedAscending /\ AskedPatterns = ConfiguredPatterns)
  /\ [][LoopEndsOnDroppedReceiver]_vars

\* C30 as amended: the subscribe calls of a successful ConnAck go through
\* the distinct patterns in ascending order, each once, and stop at the
\* first call that returns an error: the patterns behind it are not asked
\* for until the next successful ConnAck.  With no failed call all patterns
\* are asked for.  The event loop ends only at a send whose receiver is
\* dropped.
C30_SubscribesUpToFailure ==
  /\ [](ConnAckHandled =>
          /\ AskedAscending
          /\ AskedPatterns \subseteq ConfiguredPatterns
          /\ ~handler.v.failed => AskedPatterns = ConfiguredPatterns
          /\ handler.v.failed =>
               /\ Asked # <<>>
               /\ \A pattern \in ConfiguredPatterns \ AskedPatterns :
                    StrLess(Asked[Len(Asked)], pattern))
  /\ [][LoopEndsOnDroppedReceiver]_vars

\* A reconnection: the second successful ConnAck of a configuration of
\* three points with two distinct patterns, listed in descending order,
\* has been handled with no failed call.
C30_Witness ==
  /\ ConnAckHandled
  /\ handler.v.accepted = 2
  /\ ~handler.v.failed
  /\ Len(probe.arg[1]) = 3
  /\ Len(Asked) = 2
  /\ StrLess(probe.arg[1][3].topic, probe.arg[1][1].topic)

====
